---- MODULE Spec2Model ----
(***************************************************************************)
(* MCP bridge server (src/src/mcp-bridge-server.js), the live-browser      *)
(* handle (playwright-cdp-handler.js) and the Gemini agent's task-session  *)
(* controller (gemini-agent.js): connection state, the dual-backend tool   *)
(* dispatcher, the session store and the plan/act/observe loop.            *)
(***************************************************************************)
EXTENDS Integers, Sequences, FiniteSets, TLC

\* ------------------------------------------------------------------ bounds
\* Number of concurrent background/direct task sessions.
NumSessions == 2
\* Largest caller-supplied options.maxIterations.
MaxIter == 3
\* Longest planning-service text, in tokens.
MaxTextLen == 2
\* Independent callers of the dispatcher wrapper outside a session.
NumCallers == 1
\* Iteration budget of the sessions that alternate between two actions.
GuardIter == 4

\* ---------------------------------------------------------- program constants
\* runTaskSession: (options && options.maxIterations) || 10
DefaultMaxIterations == 10
\* runTaskSession: if (repeatCount >= 2)
RepeatLimit == 2

Sessions == 1..NumSessions
Callers  == (NumSessions + 1)..(NumSessions + NumCallers)
Invokers == Sessions \cup Callers

\* ------------------------------------------------------------ tool names
\* The characters of every tool name and keyword the model uses, so that
\* String.prototype.includes is computed on characters.
Chars(s) ==
  CASE
    s = "browser_navigate" -> <<"b","r","o","w","s","e","r","_","n","a","v","i","g","a","t","e">>
    [] s = "browser_goto" -> <<"b","r","o","w","s","e","r","_","g","o","t","o">>
    [] s = "playwright_navigate" -> <<"p","l","a","y","w","r","i","g","h","t","_","n","a","v","i","g","a","t","e">>
    [] s = "playwright_goto" -> <<"p","l","a","y","w","r","i","g","h","t","_","g","o","t","o">>
    [] s = "browser_screenshot" -> <<"b","r","o","w","s","e","r","_","s","c","r","e","e","n","s","h","o","t">>
    [] s = "playwright_screenshot" -> <<"p","l","a","y","w","r","i","g","h","t","_","s","c","r","e","e","n","s","h","o","t">>
    [] s = "browser_click" -> <<"b","r","o","w","s","e","r","_","c","l","i","c","k">>
    [] s = "playwright_click" -> <<"p","l","a","y","w","r","i","g","h","t","_","c","l","i","c","k">>
    [] s = "browser_fill" -> <<"b","r","o","w","s","e","r","_","f","i","l","l">>
    [] s = "browser_type" -> <<"b","r","o","w","s","e","r","_","t","y","p","e">>
    [] s = "playwright_fill" -> <<"p","l","a","y","w","r","i","g","h","t","_","f","i","l","l">>
    [] s = "playwright_type" -> <<"p","l","a","y","w","r","i","g","h","t","_","t","y","p","e">>
    [] s = "browser_evaluate" -> <<"b","r","o","w","s","e","r","_","e","v","a","l","u","a","t","e">>
    [] s = "playwright_evaluate" -> <<"p","l","a","y","w","r","i","g","h","t","_","e","v","a","l","u","a","t","e">>
    [] s = "browser_accessibility_snapshot" -> <<"b","r","o","w","s","e","r","_","a","c","c","e","s","s","i","b","i","l","i","t","y","_","s","n","a","p","s","h","o","t">>
    [] s = "playwright_accessibility_snapshot" -> <<"p","l","a","y","w","r","i","g","h","t","_","a","c","c","e","s","s","i","b","i","l","i","t","y","_","s","n","a","p","s","h","o","t">>
    [] s = "browser_wait_for" -> <<"b","r","o","w","s","e","r","_","w","a","i","t","_","f","o","r">>
    [] s = "playwright_wait_for" -> <<"p","l","a","y","w","r","i","g","h","t","_","w","a","i","t","_","f","o","r">>
    [] s = "navigate" -> <<"n","a","v","i","g","a","t","e">>
    [] s = "goto" -> <<"g","o","t","o">>
    [] s = "screenshot" -> <<"s","c","r","e","e","n","s","h","o","t">>
    [] s = "click" -> <<"c","l","i","c","k">>
    [] s = "fill" -> <<"f","i","l","l">>
    [] s = "type" -> <<"t","y","p","e">>
    [] s = "evaluate" -> <<"e","v","a","l","u","a","t","e">>
    [] s = "accessibility" -> <<"a","c","c","e","s","s","i","b","i","l","i","t","y">>
    [] s = "snapshot" -> <<"s","n","a","p","s","h","o","t">>
    [] s = "wait" -> <<"w","a","i","t">>
    [] s = "browser_tabs" -> <<"b","r","o","w","s","e","r","_","t","a","b","s">>
    [] s = "browser" -> <<"b","r","o","w","s","e","r">>
    [] s = "Browser_Navigate" -> <<"B","r","o","w","s","e","r","_","N","a","v","i","g","a","t","e">>
    [] s = "browser_fill_form" -> <<"b","r","o","w","s","e","r","_","f","i","l","l","_","f","o","r","m">>
    [] s = "browser_press_key" -> <<"b","r","o","w","s","e","r","_","p","r","e","s","s","_","k","e","y">>
    [] s = "" -> <<>>

\* a.includes(b)
Includes(a, b) ==
  LET ca == Chars(a)
      cb == Chars(b)
  IN \E i \in 0..(Len(ca) - Len(cb)) : SubSeq(ca, i + 1, i + Len(cb)) = cb

\* const browserTools = [...]
browserTools ==
  { "browser_navigate", "browser_goto", "playwright_navigate", "playwright_goto",
    "browser_screenshot", "playwright_screenshot",
    "browser_click", "playwright_click",
    "browser_fill", "browser_type", "playwright_fill", "playwright_type",
    "browser_evaluate", "playwright_evaluate",
    "browser_accessibility_snapshot", "playwright_accessibility_snapshot",
    "browser_wait_for", "playwright_wait_for" }

\* Tool names that reach the dispatcher in this model.
ToolNames ==
  { "browser_navigate", "browser_click", "browser_evaluate", "browser_tabs", "browser",
    "Browser_Navigate", "" }

\* browserTools.some(tool => toolName.includes(tool) || tool.includes(toolName))
MatchesBrowserTools(toolName) ==
  \E tool \in browserTools : Includes(toolName, tool) \/ Includes(tool, toolName)

IsBrowserToolTable == [n \in ToolNames |-> MatchesBrowserTools(n)]

IsBrowserTool(toolName) == IsBrowserToolTable[toolName]

\* The if / else-if chain choosing the handler operation; "none" is the final
\* else branch (throw new Error('Tool not handled by CDP')).
ChooseLiveOp(toolName) ==
  IF Includes(toolName, "navigate") \/ Includes(toolName, "goto") THEN "navigate"
  ELSE IF Includes(toolName, "screenshot") THEN "screenshot"
  ELSE IF Includes(toolName, "click") THEN "click"
  ELSE IF Includes(toolName, "fill") THEN "fill"
  ELSE IF Includes(toolName, "type") THEN "type"
  ELSE IF Includes(toolName, "evaluate") THEN "evaluate"
  ELSE IF Includes(toolName, "accessibility") \/ Includes(toolName, "snapshot") THEN "getAccessibilitySnapshot"
  ELSE IF Includes(toolName, "wait") THEN "waitForSelector"
  ELSE "none"

LiveOpTable == [n \in ToolNames |-> ChooseLiveOp(n)]

LiveOp(toolName) == LiveOpTable[toolName]

\* ------------------------------------------------------------------ state
VARIABLES
  env,            \* process.env as read by the bridge, and the ports Chrome listens on
  mcpClient,      \* let mcpClient: "null", or the state of the Client it refers to
  isConnected,    \* let isConnected
  playwrightCDP,  \* let playwrightCDP: the handler it refers to (ref = FALSE is null)
  geminiAgent,    \* let geminiAgent: the agent it refers to (ref = FALSE is null)
  wrapperMade,    \* createMCPClientWrapper() has been called at least once
  conn,           \* requests running connectToMCP / POST /gemini/initialize
  disc,           \* the POST /mcp/disconnect handler
  call,           \* callTool invocations of the dispatcher wrapper, per invoker
  sess,           \* runTaskSession activations: locals and position
  sessions,       \* const sessions = {}: the session store
  conversationHistory,  \* this.conversationHistory of the agent: the roles of its entries
  msgs,           \* processMessage activations: position and locals
  cdpHandler,     \* one PlaywrightCDPHandler object: its fields, from construction on
  ops             \* operations running on that handler: position and locals

vars == << env, mcpClient, isConnected, playwrightCDP, geminiAgent, wrapperMade,
           conn, disc, call, sess, sessions, conversationHistory, msgs, cdpHandler, ops >>

\* What the bridge's handlers and the task sessions never write.
sideVars == << conversationHistory, msgs, cdpHandler, ops >>

bridgeVars == << mcpClient, isConnected, playwrightCDP, geminiAgent, wrapperMade, conn, disc >>

\* Requests that may run connectToMCP concurrently.
NumConn == 1
ConnReqs == DOMAIN conn

\* const possiblePorts = [9222, 9223, 9224, 9225]
possiblePorts == << 9222, 9223, 9224, 9225 >>

\* ---------------------------------------------------------------- arguments
\* A tool-call argument object. "" stands for an absent key; present = FALSE is
\* an action without an args member (parsed.args undefined).
NoArgs == [present |-> FALSE, ref |-> "", url |-> "", code |-> "", element |-> ""]
EmptyArgs == [present |-> TRUE, ref |-> "", url |-> "", code |-> "", element |-> ""]

\* parsed.args || {}
OrEmpty(args) == IF args.present THEN args ELSE EmptyArgs

\* ------------------------------------------------------------ Backend Detector
Ports == { possiblePorts[k] : k \in 1..Len(possiblePorts) }

\* What a listening port answers to GET /json/version: a 2xx response with a
\* JSON body, a non-2xx response, or a 2xx response whose body is not JSON.
ProbeAnswers == { "ok", "notOk", "badJson" }

\* fetch(`http://localhost:${port}/json/version`) in environment e; a port
\* nothing listens on refuses the connection (or times out).
Probe(port, e) == IF port \in e.listening THEN e.probe[port] ELSE "refused"

\* A faulty loop without the try / catch: a refused probe or an unparseable
\* body is thrown out of the detection.
ProbeFromUncaught(i, e, probed) ==
  IF i > Len(possiblePorts) THEN [endpoint |-> 0, probed |-> probed, threw |-> FALSE]
  ELSE [endpoint |-> IF Probe(possiblePorts[i], e) = "ok" THEN possiblePorts[i] ELSE 0,
        probed |-> Append(probed, possiblePorts[i]),
        threw |-> Probe(possiblePorts[i], e) \in {"refused", "badJson"}]

\* findChromeCDPEndpoint's loop from index i on, probed being the ports probed
\* so far: the first port whose probe is ok and whose body parses; endpoint 0
\* is null, threw an error leaving the function.
RECURSIVE ProbeFrom(_, _, _)
ProbeFrom(i, e, probed) ==
  IF i > Len(possiblePorts) THEN [endpoint |-> 0, probed |-> probed, threw |-> FALSE]
  ELSE IF Probe(possiblePorts[i], e) = "ok"
    THEN [endpoint |-> possiblePorts[i], probed |-> Append(probed, possiblePorts[i]),
          threw |-> FALSE]
  ELSE ProbeFrom(i + 1, e, Append(probed, possiblePorts[i]))

\* A faulty detection that assumes the default port without probing it.
findChromeCDPEndpointDefault(e) == possiblePorts[1]

findChromeCDPEndpoint(e) == ProbeFrom(1, e, << >>).endpoint

\* -------------------------------------------------------- Live-Browser Handle
\* let playwrightCDP = null
NullHandle ==
  [ref |-> FALSE, isConnected |-> FALSE, browser |-> FALSE, context |-> FALSE, cdpEndpoint |-> 0]

\* new PlaywrightCDPHandler(): constructor(cdpEndpoint = 'http://localhost:9222')
NewHandle ==
  [ref |-> TRUE, isConnected |-> FALSE, browser |-> FALSE, context |-> FALSE, cdpEndpoint |-> 9222]

\* new PlaywrightCDPHandler(cdpEndpoint)
NewHandleAt(cdpEndpoint) == [NewHandle EXCEPT !.cdpEndpoint = cdpEndpoint]

\* PlaywrightCDPHandler.connect() has settled: stage "ok", or the stage that threw.
\* A faulty connect() whose catch leaves the connected flag as the last stage set it.
HandleAfterConnectFlagKept(stage) ==
  [ref |-> TRUE, isConnected |-> stage \in {"ok", "page"},
   browser |-> stage # "attach", context |-> stage \in {"ok", "page"},
   cdpEndpoint |-> 9222]

HandleAfterConnect(stage) ==
  CASE stage = "ok"      -> [NewHandle EXCEPT !.isConnected = TRUE, !.browser = TRUE, !.context = TRUE]
    [] stage = "attach"  -> NewHandle
    [] stage = "context" -> [NewHandle EXCEPT !.browser = TRUE]
    [] stage = "page"    -> [NewHandle EXCEPT !.browser = TRUE, !.context = TRUE]

\* A faulty disconnect() that calls browser.close(): Chrome stops listening.
ListeningAfterBrowserClose(listening, h) ==
  IF h.ref /\ h.browser THEN listening \ {h.cdpEndpoint} ELSE listening

\* PlaywrightCDPHandler.disconnect() clears its references and sends nothing to
\* the browser: the ports Chrome listens on after it.
ListeningAfterDisconnect(listening, h) == listening

\* isConnectedToBrowser(): this.isConnected && this.browser !== null
isConnectedToBrowser(h) == h.isConnected /\ h.browser

\* getPage's guard: if (!this.isConnected || !this.context) throw
GetPageOk(h) == h.isConnected /\ h.context

\* The handle object exists and its own isConnected flag is set.
HandleConnected == playwrightCDP.ref /\ playwrightCDP.isConnected

\* A faulty test that looks only at whether a handle object exists.
CdpAvailableIfHandle == playwrightCDP.ref

\* playwrightCDP && playwrightCDP.isConnectedToBrowser()
CdpAvailable == playwrightCDP.ref /\ isConnectedToBrowser(playwrightCDP)

\* ------------------------------------------------------------ Tool Dispatcher
\* One invocation by an invoker: of the wrapper's callTool or listTools, or of
\* the HTTP endpoint POST /mcp/tools/:toolName or GET /mcp/tools.
NoCall ==
  [phase |-> "idle", via |-> "wrapper", op |-> "callTool", name |-> "", args |-> NoArgs,
   subLists |-> 0,
   cdpAtEntry |-> FALSE, matched |-> FALSE, liveOps |-> 0, liveThrew |-> FALSE,
   subCalls |-> 0, subName |-> "", subArgs |-> NoArgs, subSettled |-> "none",
   outcome |-> "none"]

\* What stays of an invocation once it has returned: the outcome and the counts.
Returned(d, outcome) ==
  [d EXCEPT !.phase = "idle", !.outcome = outcome, !.name = "", !.args = NoArgs,
            !.subName = "", !.subArgs = NoArgs]

\* A faulty wrapper without the if (!mcpClient) test.
CallToolSubprocessOnUnchecked(client, d) ==
  [d EXCEPT !.phase = "sub", !.subCalls = @ + 1, !.subName = d.name, !.subArgs = d.args]

\* Lines 151-157: if (!mcpClient) throw ...; await mcpClient.callTool(request).
\* A Client that is not connected rejects the request at once.
CallToolSubprocessOn(client, d) ==
  IF client = "null"
    THEN Returned(d, "notConnected")
  ELSE IF client # "connected"
    THEN Returned([d EXCEPT !.subCalls = @ + 1], "subError")
  ELSE [d EXCEPT !.phase = "sub", !.subCalls = @ + 1, !.subName = d.name, !.subArgs = d.args]

CallToolSubprocess(d) == CallToolSubprocessOn(mcpClient, d)

\* A faulty dispatcher that sends a live call to the subprocess as well.
CallToolEnterBoth(name, args) ==
  LET d == [NoCall EXCEPT !.name = name, !.args = args, !.cdpAtEntry = HandleConnected,
                          !.matched = IsBrowserTool(name)]
  IN IF CdpAvailable /\ IsBrowserTool(name) /\ LiveOp(name) # "none" /\ GetPageOk(playwrightCDP)
       THEN [d EXCEPT !.phase = "live", !.liveOps = @ + 1, !.subCalls = @ + 1]
       ELSE CallToolSubprocess(d)

\* Lines 104-149 up to the first await: the routing decision of callTool.
CallToolEnter(name, args) ==
  LET d == [NoCall EXCEPT !.name = name, !.args = args, !.cdpAtEntry = HandleConnected,
                          !.matched = IsBrowserTool(name)]
  IN IF CdpAvailable /\ IsBrowserTool(name)
       THEN IF LiveOp(name) = "none"
              THEN CallToolSubprocess(d)
            ELSE IF ~GetPageOk(playwrightCDP)
              THEN CallToolSubprocess([d EXCEPT !.liveOps = @ + 1, !.liveThrew = TRUE])
            ELSE [d EXCEPT !.phase = "live", !.liveOps = @ + 1]
       ELSE CallToolSubprocess(d)

\* A faulty dispatcher that lets the live operation's error out to the caller.
CallToolLiveSettledRaise(d, ok) ==
  IF ok THEN Returned(d, "live")
  ELSE Returned([d EXCEPT !.liveThrew = TRUE], "liveError")

\* The awaited live operation settles: return result, or catch and fall through.
CallToolLiveSettled(d, ok) ==
  IF ok THEN Returned(d, "live")
  ELSE CallToolSubprocess([d EXCEPT !.liveThrew = TRUE])

\* The awaited mcpClient.callTool settles: return resp, or propagate the error.
CallToolSubSettled(d, ok) ==
  Returned([d EXCEPT !.subSettled = IF ok THEN "ok" ELSE "failed"],
           IF ok THEN "sub" ELSE "subError")

\* A faulty listTools that answers from the live browser when one is attached.
ListToolsPreferLive(client, d) ==
  IF CdpAvailable THEN Returned([d EXCEPT !.liveOps = @ + 1], "live")
  ELSE IF client = "null" THEN Returned(d, "notConnected")
  ELSE IF client # "connected" THEN Returned([d EXCEPT !.subLists = @ + 1], "subError")
  ELSE [d EXCEPT !.phase = "list", !.subLists = @ + 1]

\* Lines 94-97 and 324: if (!mcpClient) throw ...; await mcpClient.listTools().
ListToolsOn(client, d) ==
  IF client = "null" THEN Returned(d, "notConnected")
  ELSE IF client # "connected" THEN Returned([d EXCEPT !.subLists = @ + 1], "subError")
  ELSE [d EXCEPT !.phase = "list", !.subLists = @ + 1]

\* A listTools invocation at its entry.
ListToolsRequest == [NoCall EXCEPT !.op = "listTools", !.cdpAtEntry = HandleConnected]

\* this.availableTools = tools, when listTools returned at once: the catalogue
\* named by where it came from, "null" when it threw.
ToolsOf(d) == IF d.outcome \in {"catalog", "live"} THEN d.outcome ELSE "null"

\* The awaited mcpClient.listTools settles: response.tools || [], or the error.
ListToolsSettled(d, ok) ==
  Returned([d EXCEPT !.subSettled = IF ok THEN "ok" ELSE "failed"],
           IF ok THEN "catalog" ELSE "subError")

\* ------------------------------------------------------------- HTTP endpoints
\* Lines 321-324 and 387-394 after the lazy connect: the 500 answer
\* 'Not connected to MCP server', or the call on the subprocess client.
EndpointAfterConnect(d, connected, client) ==
  IF ~connected \/ client = "null" THEN Returned(d, "notConnected")
  ELSE IF d.op = "listTools" THEN ListToolsOn(client, d)
  ELSE CallToolSubprocessOn(client, d)

\* Lines 318-320 and 384-386: if (!isConnected) await connectToMCP().
EndpointSubprocess(d) ==
  IF ~isConnected THEN [d EXCEPT !.phase = "connect"]
  ELSE EndpointAfterConnect(d, isConnected, mcpClient)

\* A faulty endpoint that knows nothing of the live browser.
EndpointCallToolEnterSubOnly(name, args) ==
  EndpointSubprocess([NoCall EXCEPT !.via = "endpoint", !.name = name, !.args = OrEmpty(args),
                                    !.cdpAtEntry = HandleConnected,
                                    !.matched = IsBrowserTool(name)])

\* POST /mcp/tools/:toolName up to its first await (lines 335-386);
\* args = req.body.args || {}.
EndpointCallToolEnter(name, args) ==
  LET d == [NoCall EXCEPT !.via = "endpoint", !.name = name, !.args = OrEmpty(args),
                          !.cdpAtEntry = HandleConnected, !.matched = IsBrowserTool(name)]
  IN IF CdpAvailable /\ IsBrowserTool(name)
       THEN IF LiveOp(name) = "none"
              THEN EndpointSubprocess(d)
            ELSE IF ~GetPageOk(playwrightCDP)
              THEN EndpointSubprocess([d EXCEPT !.liveOps = @ + 1, !.liveThrew = TRUE])
            ELSE [d EXCEPT !.phase = "live", !.liveOps = @ + 1]
       ELSE EndpointSubprocess(d)

\* The endpoint's awaited live operation settles (lines 375-381).
EndpointLiveSettled(d, ok) ==
  IF ok THEN Returned(d, "live")
  ELSE EndpointSubprocess([d EXCEPT !.liveThrew = TRUE])

\* GET /mcp/tools up to its first await (lines 318-324).
EndpointListToolsEnter == EndpointSubprocess([ListToolsRequest EXCEPT !.via = "endpoint"])

\* --------------------------------------------------------------- connectToMCP
IdleConn ==
  [pc |-> "idle", kind |-> "connect", next |-> "idle",
   ownsHandle |-> FALSE, ownsClient |-> FALSE, doomed |-> FALSE, ret |-> "none",
   caller |-> 0, probed |-> << >>, dropped |-> NullHandle]

\* A request that has answered: what stays is what its connectToMCP returned.
Answered(r) == [IdleConn EXCEPT !.ret = r.ret]

NullAgent == [ref |-> FALSE, availableTools |-> "null", initBy |-> 0]

\* connectToMCP returns to the endpoint that awaited it (caller), which goes on
\* in the same turn; r is the returning request.
ResumeCalls(r, connected, client) ==
  IF r.caller = 0 THEN call
  ELSE [call EXCEPT ![r.caller] = EndpointAfterConnect(@, connected, client)]

\* Every other request loses the global reference to the object it made.
Disown(cs, field) == [c \in ConnReqs |-> [cs[c] EXCEPT ![field] = FALSE]]

\* new GeminiAgent(key, createMCPClientWrapper()); await geminiAgent.initialize():
\* the wrapper's listTools rejects at once unless a connected client is there,
\* else the request awaits the peer's answer. cs is conn as changed so far,
\* client the value of mcpClient at this point.
MakeAgent(c, cs, client, next) ==
  /\ wrapperMade' = TRUE
  /\ IF ListToolsOn(client, ListToolsRequest).phase = "list"
       THEN /\ geminiAgent' = [ref |-> TRUE, availableTools |-> "null", initBy |-> c]
            /\ conn' = [cs EXCEPT ![c] = [@ EXCEPT !.pc = "agentInit", !.next = next]]
            /\ UNCHANGED call
       ELSE /\ geminiAgent' = [ref |-> TRUE, initBy |-> 0,
                               availableTools |-> ToolsOf(ListToolsOn(client, ListToolsRequest))]
            /\ conn' = [cs EXCEPT ![c] = Answered(@)]
            /\ call' = ResumeCalls(cs[c], TRUE, client)

\* connectToMCP returns to its caller. POST /mcp/connect and the startup connect
\* answer; POST /gemini/initialize goes on (lines 452-461).
ReturnFromConnect(c, cs, connected, client) ==
  IF cs[c].kind = "init" /\ connected /\ client # "null"
    THEN MakeAgent(c, cs, client, "idle")
    ELSE /\ conn' = [cs EXCEPT ![c] = Answered(@)]
         /\ call' = ResumeCalls(cs[c], connected, client)
         /\ UNCHANGED << geminiAgent, wrapperMade >>

\* Lines 224-244: new StdioClientTransport, new Client, await mcpClient.connect.
CreateClient(c, cs) ==
  /\ mcpClient' = "created"
  /\ conn' = [Disown(cs, "ownsClient") EXCEPT ![c] =
                [cs[c] EXCEPT !.pc = "mcp", !.ownsClient = TRUE, !.doomed = FALSE]]

\* A faulty guard that never takes the early return.
AlreadyConnectedNever == FALSE

\* if (isConnected && mcpClient) return true
AlreadyConnected == isConnected /\ mcpClient # "null"

\* connectToMCP is entered, or POST /gemini/initialize, and runs to its first
\* await; caller is the endpoint invocation that awaits the return, 0 if none.
ConnectEnter(c, kind, caller) ==
  /\ conn[c].pc = "idle"
  /\ LET cs == [conn EXCEPT ![c] = [IdleConn EXCEPT !.kind = kind, !.caller = caller]]
     IN IF kind = "init" /\ isConnected
          THEN \* if (!isConnected) is false: no connectToMCP call
               /\ ReturnFromConnect(c, cs, isConnected, mcpClient)
               /\ UNCHANGED << mcpClient, isConnected, playwrightCDP >>
        ELSE IF AlreadyConnected
          THEN \* the already-connected return of connectToMCP
               /\ ReturnFromConnect(c, [cs EXCEPT ![c].ret = "true"], isConnected, mcpClient)
               /\ UNCHANGED << mcpClient, isConnected, playwrightCDP >>
        ELSE IF env.useExistingBrowser
          THEN /\ conn' = [cs EXCEPT ![c] = [@ EXCEPT !.pc = "detect"]]
               /\ UNCHANGED << mcpClient, isConnected, playwrightCDP, geminiAgent, wrapperMade >>
        ELSE /\ CreateClient(c, cs)
             /\ UNCHANGED << isConnected, playwrightCDP, geminiAgent, wrapperMade >>
  /\ UNCHANGED << env, sideVars, disc, sess, sessions >>

\* A request enters connectToMCP (POST /mcp/connect, the startup connect) or
\* POST /gemini/initialize.
ConnectBegin(c, kind) ==
  /\ ConnectEnter(c, kind, 0)
  /\ UNCHANGED call

\* let cdpEndpoint = process.env.CHROME_CDP_ENDPOINT (line 180, 0 is unset), then
\* cdpEndpoint = await findChromeCDPEndpoint() (line 186): the detection's answer
\* is assigned whatever the variable held.
DetectedOver(override, detected) == detected

\* findChromeCDPEndpoint() has answered (lines 186-213).
ConnectDetected(c) ==
  /\ conn[c].pc = "detect"
  /\ LET cdpEndpoint == DetectedOver(env.cdpOverride, findChromeCDPEndpoint(env))
         cs == [conn EXCEPT ![c].probed = ProbeFrom(1, env, << >>).probed]
     IN IF cdpEndpoint # 0
          THEN /\ playwrightCDP' = NewHandleAt(cdpEndpoint)
               /\ conn' = [Disown(cs, "ownsHandle") EXCEPT ![c] =
                             [cs[c] EXCEPT !.pc = "cdp", !.ownsHandle = TRUE]]
               /\ UNCHANGED mcpClient
          ELSE /\ playwrightCDP' = NullHandle
               /\ CreateClient(c, Disown(cs, "ownsHandle"))
  /\ UNCHANGED << env, sideVars, isConnected, geminiAgent, wrapperMade, disc, call, sess, sessions >>

\* await playwrightCDP.connect() has settled (lines 192-203).
ConnectCdpSettled(c, stage) ==
  /\ conn[c].pc = "cdp"
  /\ IF stage = "ok"
       THEN /\ playwrightCDP' =
                 IF conn[c].ownsHandle
                   THEN [HandleAfterConnect(stage) EXCEPT !.cdpEndpoint = playwrightCDP.cdpEndpoint]
                   ELSE playwrightCDP
            /\ CreateClient(c, [conn EXCEPT ![c] = [@ EXCEPT !.ownsHandle = FALSE]])
       ELSE \* catch (cdpError): the handle connect() threw on is let go
            /\ playwrightCDP' = NullHandle
            /\ CreateClient(c, [Disown(conn, "ownsHandle") EXCEPT
                                  ![c].dropped = HandleAfterConnect(stage)])
  /\ UNCHANGED << env, sideVars, isConnected, geminiAgent, wrapperMade, disc, call, sess, sessions >>

\* await mcpClient.connect(mcpTransport) has settled (lines 244-280).
ConnectMcpSettled(c, ok) ==
  /\ conn[c].pc = "mcp"
  /\ ok => ~conn[c].doomed
  /\ IF ok
       THEN LET client == IF conn[c].ownsClient THEN "connected" ELSE mcpClient
            IN /\ mcpClient' = client
               /\ isConnected' = TRUE
               /\ IF env.geminiKey /\ ~geminiAgent.ref
                    THEN MakeAgent(c, [conn EXCEPT ![c].ret = "true"], client,
                                   IF conn[c].kind = "init" THEN "initHandler" ELSE "idle")
                    ELSE ReturnFromConnect(c, [conn EXCEPT ![c].ret = "true"], TRUE, client)
       ELSE /\ mcpClient' = "null"
            /\ isConnected' = FALSE
            /\ conn' = [Disown(conn, "ownsClient") EXCEPT ![c] = [IdleConn EXCEPT !.ret = "false"]]
            /\ call' = ResumeCalls(conn[c], FALSE, "null")
            /\ UNCHANGED << geminiAgent, wrapperMade >>
  /\ UNCHANGED << env, sideVars, playwrightCDP, disc, sess, sessions >>

\* geminiAgent.initialize(): the awaited listTools has settled; the agent being
\* initialised is the one whose initBy is c, wherever it is referenced from.
AgentInitialized(a, c, ok) ==
  IF a.initBy = c
    THEN [a EXCEPT !.initBy = 0, !.availableTools = IF ok THEN "catalog" ELSE "null"]
    ELSE a

AgentInitSettled(c, ok) ==
  /\ conn[c].pc = "agentInit"
  /\ sess' = [s \in Sessions |-> [sess[s] EXCEPT !.agent = AgentInitialized(@, c, ok)]]
  /\ IF conn[c].next = "initHandler" /\ isConnected /\ mcpClient # "null"
       THEN MakeAgent(c, conn, mcpClient, "idle")
       ELSE /\ geminiAgent' = AgentInitialized(geminiAgent, c, ok)
            /\ conn' = [conn EXCEPT ![c] = Answered(@)]
            /\ call' = ResumeCalls(conn[c], isConnected, mcpClient)
            /\ UNCHANGED wrapperMade
  /\ UNCHANGED << env, sideVars, mcpClient, isConnected, playwrightCDP, disc, sessions >>

\* ------------------------------------------------------- POST /mcp/disconnect
\* Lines 420-426: handler disconnect(), playwrightCDP = null, then either
\* await mcpClient.close() or the final resets.
DisconnectBegin ==
  /\ disc = "idle"
  /\ playwrightCDP' = NullHandle
  /\ IF mcpClient # "null"
       THEN /\ disc' = "close"
            /\ conn' = [c \in ConnReqs |->
                          [conn[c] EXCEPT !.ownsHandle = FALSE,
                                          !.doomed = @ \/ (conn[c].pc = "mcp" /\ conn[c].ownsClient)]]
            /\ UNCHANGED << mcpClient, isConnected, geminiAgent >>
       ELSE /\ mcpClient' = "null"
            /\ isConnected' = FALSE
            /\ geminiAgent' = NullAgent
            /\ conn' = Disown(conn, "ownsHandle")
            /\ disc' = "idle"
  /\ env' = [env EXCEPT !.listening =
                IF playwrightCDP.ref /\ isConnectedToBrowser(playwrightCDP)
                  THEN ListeningAfterDisconnect(@, playwrightCDP)
                  ELSE @]
  /\ UNCHANGED << wrapperMade, call, sess, sessions, sideVars >>

\* Lines 426-435: mcpClient.close() has settled; a rejection skips the resets.
DisconnectClosed(ok) ==
  /\ disc = "close"
  /\ disc' = "idle"
  /\ IF ok
       THEN /\ mcpClient' = "null"
            /\ isConnected' = FALSE
            /\ geminiAgent' = NullAgent
            /\ conn' = Disown(conn, "ownsClient")
       ELSE UNCHANGED << mcpClient, isConnected, geminiAgent, conn >>
  /\ UNCHANGED << env, sideVars, playwrightCDP, wrapperMade, call, sess, sessions >>

\* ------------------------------------------- dispatcher calls outside sessions
ArgChoices ==
  { NoArgs,
    [present |-> TRUE, ref |-> "", url |-> "u1", code |-> "", element |-> ""] }

\* An agent method (executeTool, computeRefIfMissing) calls the wrapper's callTool.
AgentCallTool(i, name, args) ==
  /\ wrapperMade
  /\ call[i].phase = "idle"
  /\ call' = [call EXCEPT ![i] = CallToolEnter(name, args)]
  /\ UNCHANGED << env, sideVars, bridgeVars, sess, sessions >>

\* An endpoint invocation goes on as d: into connectToMCP when it found the
\* bridge not connected, else with nothing but its own record changed.
EndpointGoesOn(i, d) ==
  /\ call' = [call EXCEPT ![i] = d]
  /\ IF d.phase = "connect"
       THEN \E c \in ConnReqs : ConnectEnter(c, "connect", i)
       ELSE UNCHANGED << env, sideVars, bridgeVars, sess, sessions >>

\* POST /mcp/tools/:toolName arrives.
EndpointCallTool(i, name, args) ==
  /\ call[i].phase = "idle"
  /\ name # ""        \* the route's :toolName segment is never empty
  /\ EndpointGoesOn(i, EndpointCallToolEnter(name, args))

\* GET /mcp/tools arrives.
EndpointListTools(i) ==
  /\ call[i].phase = "idle"
  /\ EndpointGoesOn(i, EndpointListToolsEnter)

\* The live operation awaited by caller i settles.
CallerLiveSettled(i, ok) ==
  /\ call[i].phase = "live"
  /\ IF call[i].via = "endpoint"
       THEN EndpointGoesOn(i, EndpointLiveSettled(call[i], ok))
       ELSE /\ call' = [call EXCEPT ![i] = CallToolLiveSettled(@, ok)]
            /\ UNCHANGED << env, sideVars, bridgeVars, sess, sessions >>

\* The subprocess callTool awaited by caller i settles.
CallerSubSettled(i, ok) ==
  /\ call[i].phase = "sub"
  /\ call' = [call EXCEPT ![i] = CallToolSubSettled(@, ok)]
  /\ UNCHANGED << env, sideVars, bridgeVars, sess, sessions >>

\* The subprocess listTools awaited by caller i settles.
CallerListSettled(i, ok) ==
  /\ call[i].phase = "list"
  /\ call' = [call EXCEPT ![i] = ListToolsSettled(@, ok)]
  /\ UNCHANGED << env, sideVars, bridgeVars, sess, sessions >>

\* ------------------------------------------------------- planning-service text
\* The text callGeminiAPI returns is a sequence of tokens: prose without braces,
\* a stray "{" or "}", or a well-formed JSON object (which begins with "{" and
\* ends with "}").
NoObj == [action |-> "", tool |-> "", args |-> NoArgs, message |-> ""]

Obj(action, tool, args, message) ==
  [action |-> action, tool |-> tool, args |-> args, message |-> message]

Arg(ref, url) == [present |-> TRUE, ref |-> ref, url |-> url, code |-> "", element |-> ""]

\* Arguments that describe the element by a hint: { element: "Search" }.
Hint(element) == [EmptyArgs EXCEPT !.element = element]

\* The call_tool objects the planning service may answer with.
CallObjs ==
  { Obj("call_tool", "browser_navigate", Arg("", "u1"), ""),
    Obj("call_tool", "browser_click", Arg("#a", ""), ""),
    Obj("call_tool", "browser_click", Hint("Search"), "") }

\* Its other objects: done with and without a message, an object without an
\* action tag, and an action tag the controller does not know.
EndObjs ==
  { Obj("done", "", NoArgs, "Navigated"),
    Obj("done", "", NoArgs, ""),
    Obj("", "", NoArgs, ""),
    Obj("chain_tools", "", NoArgs, "") }

Tok(kind, obj) == [kind |-> kind, obj |-> obj]

JunkTokens == { Tok("prose", NoObj), Tok("lbrace", NoObj), Tok("rbrace", NoObj) }
ObjTokens  == { Tok("obj", o) : o \in CallObjs \cup EndObjs }
Tokens     == JunkTokens \cup ObjTokens

\* Objects that also occur next to other tokens in a text.
WrappedObjs ==
  { Obj("call_tool", "browser_navigate", Arg("", "u1"), ""),
    Obj("done", "", NoArgs, "Navigated"),
    Obj("done", "", NoArgs, "") }

SeqsUpTo(S, n) == UNION { [1..k -> S] : k \in 0..n }

PlannerTexts ==
  { t \in SeqsUpTo(Tokens, MaxTextLen) :
      Len(t) > 1 => \A i \in 1..Len(t) : t[i].kind = "obj" => t[i].obj \in WrappedObjs }

\* A message: a string m, or a whole planning text raw ("" and <<>> when absent).
Msg(m) == [m |-> m, raw |-> <<>>, n |-> 0]
Raw(t) == [m |-> "", raw |-> t, n |-> 0]
\* `Max iterations (${maxIterations}) reached`
MaxIterationsMessage(n) == [m |-> "Max iterations reached", raw |-> <<>>, n |-> n]
Falsy(message) == message.m = "" /\ message.raw = <<>>

\* response.match(/\{[\s\S]*\}/): from the first "{" to the last "}" of the text.
OpensBrace(tok)  == tok.kind \in {"lbrace", "obj"}
ClosesBrace(tok) == tok.kind \in {"rbrace", "obj"}

FirstOpen(t) ==
  IF \E i \in 1..Len(t) : OpensBrace(t[i])
    THEN CHOOSE i \in 1..Len(t) : OpensBrace(t[i]) /\ \A j \in 1..(i - 1) : ~OpensBrace(t[j])
    ELSE 0

LastClose(t) ==
  IF \E i \in 1..Len(t) : ClosesBrace(t[i])
    THEN CHOOSE i \in 1..Len(t) : ClosesBrace(t[i]) /\ \A j \in (i + 1)..Len(t) : ~ClosesBrace(t[j])
    ELSE 0

\* The matched substring parses with JSON.parse exactly when it is one object:
\* one object token, or "{" next to "}", the empty object.
JsonMatch(t) ==
  LET i == FirstOpen(t)
      j == LastClose(t)
  IN IF i = 0 \/ j < i THEN [found |-> FALSE, parses |-> FALSE, obj |-> NoObj]
     ELSE IF i = j THEN [found |-> TRUE, parses |-> TRUE, obj |-> t[i].obj]
     ELSE IF j = i + 1 /\ t[i].kind = "lbrace" /\ t[j].kind = "rbrace"
       THEN [found |-> TRUE, parses |-> TRUE, obj |-> NoObj]
     ELSE [found |-> TRUE, parses |-> FALSE, obj |-> NoObj]

\* A faulty fallback that tags the text with an action the controller rejects.
RespondUnknown(t) == [action |-> "unparsed", tool |-> "", args |-> NoArgs, message |-> Raw(t)]

\* { action: 'respond', message: response }
Respond(t) == [action |-> "respond", tool |-> "", args |-> NoArgs, message |-> Raw(t)]

\* parseGeminiResponse(response)
parseGeminiResponse(t) ==
  LET jm == JsonMatch(t)
  IN IF jm.found /\ jm.parses
       THEN [action |-> jm.obj.action, tool |-> jm.obj.tool, args |-> jm.obj.args,
             message |-> Msg(jm.obj.message)]
       ELSE Respond(t)

\* ---------------------------------------------------------------- Session Store
NoParsed == [action |-> "", tool |-> "", args |-> NoArgs, message |-> Msg("")]
NoToolResult == [success |-> FALSE, result |-> "", error |-> ""]
NoRet == [set |-> FALSE, success |-> FALSE, message |-> Msg("")]

\* sessions[id] is undefined
NoRecord ==
  [status |-> "absent", message |-> "", trace |-> <<>>, lastAction |-> NoParsed,
   lastToolResult |-> NoToolResult, result |-> NoRet, error |-> ""]

\* makeSession(): { id, status: 'created', trace: [], lastUpdate }
makeSession == [NoRecord EXCEPT !.status = "created"]

\* updateSession(id, patch): if (!sessions[id]) return; Object.assign(sessions[id], patch)
updateSession(rec, patch) ==
  IF rec.status = "absent" THEN rec
  ELSE [f \in DOMAIN rec |-> IF f \in DOMAIN patch THEN patch[f] ELSE rec[f]]

\* The onUpdate callback of POST /gemini/chat (lines 497-500).
onUpdate(rec, update) ==
  updateSession(rec, [status |-> update.status, trace |-> update.trace,
                      lastAction |-> update.action, lastToolResult |-> update.toolResult])

\* A faulty end of the task that puts the record back to 'created'.
SessionTaskEndCreated(rec, threw, sessionResult, trace, e) ==
  updateSession(rec, [status |-> "created", result |-> sessionResult, trace |-> trace])

\* The end of the background task (lines 503-507): the awaited runTaskSession
\* resolved with sessionResult, or rejected with error e.
SessionTaskEnd(rec, threw, sessionResult, trace, e) ==
  IF threw THEN updateSession(rec, [status |-> "error", error |-> e])
  ELSE updateSession(rec, [status |-> "finished", result |-> sessionResult, trace |-> trace])

\* ------------------------------------------------------ Task-Session Controller
\* options.maxIterations as the caller gave it: absent, or the number n.
NoOption == [n |-> 0, given |-> FALSE]
Given(n) == [n |-> n, given |-> TRUE]

\* const maxIterations = (options && options.maxIterations) || 10
MaxIterationsOf(opt) == IF opt.given /\ opt.n # 0 THEN opt.n ELSE DefaultMaxIterations

\* JSON.stringify(args): the members in order; absent members leave no trace.
Stringify(args) == << args.ref, args.url, args.code, args.element >>

\* const sig = `${parsed.tool}|${JSON.stringify(parsed.args || {})}`
Signature(parsed) == << parsed.tool, Stringify(OrEmpty(parsed.args)) >>

NoSig == << >>

\* A faulty counter that a different action does not put back to zero.
NextRepeatCountNoReset(previous, sig, repeatCount) ==
  IF previous = NoSig THEN 0 ELSE repeatCount + 1

\* if (previousActionSignature === sig) repeatCount += 1; else repeatCount = 0
NextRepeatCount(previous, sig, repeatCount) ==
  IF previous = sig THEN repeatCount + 1 ELSE 0

\* A faulty guard that never trips.
LoopGuardNever(repeatCount) == FALSE

\* if (repeatCount >= 2)
LoopGuardTrips(repeatCount) == repeatCount >= RepeatLimit

\* A faulty loop test that lets one more iteration through.
ContinueLoopInclusive(iteration, maxIterations, finished) ==
  iteration <= maxIterations /\ ~finished

\* A faulty loop test without the iteration cap.
ContinueLoopUncapped(iteration, maxIterations, finished) == ~finished

\* while (iteration < maxIterations && !finished)
ContinueLoop(iteration, maxIterations, finished) == iteration < maxIterations /\ ~finished

\* A faulty final message that ignores the action's message.
FinalMessageDone(parsed, geminiResponse) == Msg("Done")

\* const message = parsed.message || geminiResponse || 'Done'
FinalMessage(parsed, geminiResponse) ==
  IF ~Falsy(parsed.message) THEN parsed.message
  ELSE IF geminiResponse # << >> THEN Raw(geminiResponse)
  ELSE Msg("Done")

\* if (parsed.action === 'done' || parsed.action === 'respond' || !parsed.action)
IsFinishAction(parsed) == parsed.action \in {"done", "respond"} \/ parsed.action = ""

\* executeTool's result object for what the dispatcher call came to.
ToolResultOf(outcome) ==
  CASE outcome = "live" -> [success |-> TRUE, result |-> "liveResult", error |-> ""]
    [] outcome = "sub"  -> [success |-> TRUE, result |-> "subResult", error |-> ""]
    [] outcome = "subError" -> [success |-> FALSE, result |-> "", error |-> "tool error"]
    [] outcome = "notConnected" ->
         [success |-> FALSE, result |-> "", error |-> "MCP client not connected"]

\* lastToolResult = toolResult && toolResult.result ? toolResult.result : toolResult
NoLast == [kind |-> "null", result |-> "", error |-> ""]
NoContext == [previous |-> FALSE, result |-> "", error |-> ""]
LastToolResultOf(toolResult) ==
  IF toolResult.result # ""
    THEN [kind |-> "payload", result |-> toolResult.result, error |-> ""]
    ELSE [kind |-> "toolResult", result |-> "", error |-> toolResult.error]

\* A faulty prompt that never carries the previous tool result.
ContextSuffixNone(lastToolResult) == NoContext

\* const contextSuffix = lastToolResult
\*   ? `\n\nPrevious tool result: ${JSON.stringify(lastToolResult)}` : ''
ContextSuffix(lastToolResult) ==
  IF lastToolResult.kind = "null" THEN NoContext
  ELSE [previous |-> TRUE, result |-> lastToolResult.result, error |-> lastToolResult.error]

\* What the request that started the session saw when its HTTP response was
\* produced: the store record's status, the controller's position, and how many
\* planning calls and tool executions had completed.
NoResp == [set |-> FALSE, status |-> "absent", pc |-> "idle", plansDone |-> 0, calls |-> 0]

IdleSess ==
  [pc |-> "idle", bg |-> FALSE, agent |-> NullAgent,
   maxIterations |-> 0, iteration |-> 0, trace |-> << >>, lastToolResult |-> NoLast,
   finished |-> FALSE, previousActionSignature |-> NoSig, repeatCount |-> 0,
   parsed |-> NoParsed, ret |-> NoRet, end |-> "",
   planCalls |-> 0, execCount |-> 0, planLog |-> << >>, resp |-> NoResp,
   context |-> NoContext, lookups |-> << >>,
   cb |-> "none", updates |-> 0, emitTrace |-> << >>, options |-> NoOption]

\* A session's slice of the state: its locals s, its dispatcher call d and its
\* store record st.
Slice(s, d, st) == [s |-> s, d |-> d, st |-> st]

\* return { success, message, trace }, then the end of the background task.
SessReturn(w, end, success, message) ==
  LET ret == [set |-> TRUE, success |-> success, message |-> message]
      s1 == [w.s EXCEPT !.pc = "returned", !.ret = ret, !.end = end]
  IN Slice(s1, w.d,
           IF w.s.bg THEN SessionTaskEnd(w.st, FALSE, ret, s1.trace, "") ELSE w.st)

\* The function ends without a return statement: the caller gets undefined, and
\* the background task's sessionResult.trace throws a TypeError.
SessReturnUndefined(w) ==
  Slice([w.s EXCEPT !.pc = "returned", !.end = "undefined"], w.d,
        IF w.s.bg THEN SessionTaskEnd(w.st, TRUE, NoRet, << >>, "TypeError") ELSE w.st)

\* The loop test, then either the next callGeminiAPI or the return after the loop.
LoopTest(w) ==
  IF ContinueLoop(w.s.iteration, w.s.maxIterations, w.s.finished)
    THEN [w EXCEPT !.s = [@ EXCEPT !.pc = "planning", !.planCalls = @ + 1,
                                   !.context = ContextSuffix(w.s.lastToolResult)]]
  ELSE IF ~w.s.finished
    THEN SessReturn(w, "maxIterations", FALSE, MaxIterationsMessage(w.s.maxIterations))
  ELSE SessReturnUndefined(w)

\* A faulty push that drops the step.
PushStepDropped(trace, step) == trace

\* A faulty push that puts the new Step in front of the earlier ones.
PushStepFront(trace, step) == << step >> \o trace

\* A faulty push that records the Step twice.
PushStepTwice(trace, step) == Append(Append(trace, step), step)

\* trace.push({ iteration: iteration + 1, tool, args, result })
PushStep(trace, step) == Append(trace, step)

\* A faulty emit without the try/catch: what the callback throws escapes to the
\* catch of runTaskSession.
EmitUpdateUncaught(cb, rec, update) ==
  [rec |-> IF cb = "store" THEN onUpdate(rec, update) ELSE rec, escaped |-> cb = "throws"]

\* Lines 505-512: options.onUpdate(update) if it is a function, inside a
\* try/catch that ignores what it throws. cb is the callback the caller gave:
\* none, the bridge's (which patches the store record), or one that throws.
EmitUpdate(cb, rec, update) ==
  [rec |-> IF cb = "store" THEN onUpdate(rec, update) ELSE rec, escaped |-> FALSE]

\* Lines 501-517: executeTool has returned toolResult.
FinishExec(w, toolResult) ==
  LET step == [iteration |-> w.s.iteration + 1, tool |-> w.s.parsed.tool,
               args |-> OrEmpty(w.s.parsed.args), result |-> toolResult]
      trace == PushStep(w.s.trace, step)
      e == EmitUpdate(w.s.cb, w.st, [status |-> "running", action |-> w.s.parsed,
                                     toolResult |-> toolResult, trace |-> trace])
      s0 == [w.s EXCEPT !.trace = trace,
                        !.updates = IF w.s.cb # "none" THEN @ + 1 ELSE @,
                        !.emitTrace = IF w.s.cb # "none" THEN trace ELSE @]
      s1 == [s0 EXCEPT !.lastToolResult = LastToolResultOf(toolResult),
                       !.iteration = @ + 1]
  IN IF e.escaped
       THEN SessReturn(Slice(s0, NoCall, e.rec), "callbackError", FALSE, Msg("callback error"))
       ELSE LoopTest(Slice(s1, NoCall, e.rec))

\* executeTool(toolName, args) up to its await: the four page actions go to the
\* evaluate tool when the catalog has one, every other tool is called directly.
evaluateOnly == { "browser_type", "browser_click", "browser_fill_form", "browser_press_key" }
FnArgs == [present |-> TRUE, ref |-> "", url |-> "", code |-> "function", element |-> ""]
ScriptArgs == [present |-> TRUE, ref |-> "", url |-> "", code |-> "script", element |-> ""]

executeToolEnter(agent, toolName, args) ==
  IF toolName \in evaluateOnly /\ agent.availableTools = "catalog"
    THEN CallToolEnter("browser_evaluate", FnArgs)
    ELSE CallToolEnter(toolName, args)

StartExec(w) ==
  LET d == executeToolEnter(w.s.agent, w.s.parsed.tool, OrEmpty(w.s.parsed.args))
      s1 == [w.s EXCEPT !.execCount = @ + 1]
  IN IF d.phase = "idle"
       THEN FinishExec(Slice(s1, d, w.st), ToolResultOf(d.outcome))
       ELSE Slice([s1 EXCEPT !.pc = "executing"], d, w.st)

\* Lines 489-497: computeRefIfMissing returned computedRef ("" is null).
MergeRef(parsed, computedRef) ==
  IF computedRef # ""
    THEN [parsed EXCEPT !.args = [OrEmpty(@) EXCEPT !.ref = IF @ # "" THEN @ ELSE computedRef]]
    ELSE parsed

AfterResolve(w, computedRef) ==
  StartExec(Slice([w.s EXCEPT !.parsed = MergeRef(@, computedRef)], NoCall, w.st))

\* A faulty computeRefIfMissing that runs the page lookup although the action
\* names its target.
ComputeRefEnterLookup(w) ==
  LET d == CallToolEnter("browser_evaluate", ScriptArgs)
      s1 == [w.s EXCEPT !.lookups = Append(@, TRUE)]
  IN IF d.phase = "idle" THEN AfterResolve(Slice(s1, d, w.st), "")
     ELSE Slice([s1 EXCEPT !.pc = "resolving"], d, w.st)

\* computeRefIfMissing up to its await (lines 846-914).
ComputeRefEnter(w) ==
  LET args == OrEmpty(w.s.parsed.args)
      asked(b) == Slice([w.s EXCEPT !.lookups = Append(@, b)], w.d, w.st)
  IN IF args.ref # "" THEN AfterResolve(asked(FALSE), args.ref)
     ELSE IF w.s.agent.availableTools # "catalog" THEN AfterResolve(asked(FALSE), "")
     ELSE LET d == CallToolEnter("browser_evaluate", ScriptArgs)
              w1 == asked(TRUE)
          IN IF d.phase = "idle" THEN AfterResolve(Slice(w1.s, d, w.st), "")
             ELSE Slice([w1.s EXCEPT !.pc = "resolving"], d, w.st)

\* Lines 465-531: callGeminiAPI resolved with text geminiResponse.
PlanSettled(w, geminiResponse) ==
  LET parsed == parseGeminiResponse(geminiResponse)
      s0 == [w.s EXCEPT !.parsed = parsed, !.planLog = Append(@, parsed)]
  IN IF parsed.action = "call_tool"
       THEN LET sig == Signature(parsed)
                rc == NextRepeatCount(w.s.previousActionSignature, sig, w.s.repeatCount)
                s1 == [s0 EXCEPT !.previousActionSignature = sig, !.repeatCount = rc]
            IN IF LoopGuardTrips(rc)
                 THEN SessReturn(Slice([s1 EXCEPT !.finished = TRUE], w.d, w.st), "loopGuard",
                                 TRUE, Msg("Stopped: repeated action detected (no progress)."))
                 ELSE ComputeRefEnter(Slice(s1, w.d, w.st))
     ELSE IF IsFinishAction(parsed)
       THEN SessReturn(Slice([s0 EXCEPT !.finished = TRUE], w.d, w.st), "finish",
                       TRUE, FinalMessage(parsed, geminiResponse))
     ELSE SessReturn(Slice([s0 EXCEPT !.finished = TRUE], w.d, w.st), "unknown",
                     FALSE, Msg("Unknown action from Gemini"))

\* Lines 532-535: callGeminiAPI rejected.
PlanFailed(w) == SessReturn(w, "planError", FALSE, Msg("Gemini API error"))

\* The dispatcher call of a session came to d: go on where the session waits.
CallSettled(w, d, computedRef) ==
  IF d.phase # "idle" THEN Slice(w.s, d, w.st)
  ELSE IF w.s.pc = "resolving"
    THEN AfterResolve(Slice(w.s, d, w.st),
                      IF d.outcome \in {"live", "sub"} THEN computedRef ELSE "")
  ELSE FinishExec(Slice(w.s, d, w.st), ToolResultOf(d.outcome))

SliceOf(s) == Slice(sess[s], call[s], sessions[s])

ResponseAt(w) ==
  [set |-> TRUE, status |-> w.st.status, pc |-> w.s.pc,
   plansDone |-> w.s.planCalls - (IF w.s.pc = "planning" THEN 1 ELSE 0),
   calls |-> w.s.execCount]

\* A faulty POST /gemini/chat that awaits the task before it answers.
RespondedAwaiting(w) == w.s.pc = "returned"

\* Whether the handler has produced its response once the turn ends in w:
\* POST /gemini/chat answers right after calling the background task (line
\* 511), POST /gemini/run-session after the awaited runTaskSession (line 548).
Responded(w) == w.s.bg \/ w.s.pc = "returned"

Put(s, w) ==
  \E x \in {w} :
    /\ sess' = [sess EXCEPT ![s] =
                  [x.s EXCEPT !.resp = IF ~@.set /\ Responded(x) THEN ResponseAt(x) ELSE @]]
    /\ call' = [call EXCEPT ![s] = x.d]
    /\ sessions' = [sessions EXCEPT ![s] = x.st]

\* POST /gemini/chat with autoSession (bg) or POST /gemini/run-session, up to the
\* first callGeminiAPI; opt is options.maxIterations.
StartSessionWith(s, bg, opt, cb) ==
  /\ sess[s].pc = "idle"
  /\ geminiAgent.ref
  /\ \A c \in ConnReqs : conn[c].pc = "idle"
  /\ LET s0 == [IdleSess EXCEPT !.bg = bg, !.cb = cb, !.agent = geminiAgent,
                                !.options = opt, !.maxIterations = MaxIterationsOf(opt)]
         st0 == IF bg
                  THEN updateSession(makeSession, [status |-> "running", message |-> "task"])
                  ELSE sessions[s]
     IN Put(s, LoopTest(Slice(s0, NoCall, st0)))
  /\ UNCHANGED << env, sideVars, bridgeVars >>

StartSession(s, bg, opt) ==
  StartSessionWith(s, bg, Given(opt), IF bg THEN "store" ELSE "none")

\* The same requests with any options: maxIterations absent, 0 or positive.
StartSessionOptions(s, bg, opt) ==
  StartSessionWith(s, bg, opt, IF bg THEN "store" ELSE "none")

\* runTaskSession called with an onUpdate callback of the caller's own that
\* throws whenever it is invoked.
StartLibrarySession(s, opt) == StartSessionWith(s, FALSE, Given(opt), "throws")

SessionPlanSettled(s, geminiResponse) ==
  /\ sess[s].pc = "planning"
  /\ Put(s, PlanSettled(SliceOf(s), geminiResponse))
  /\ UNCHANGED << env, sideVars, bridgeVars >>

SessionPlanFailed(s) ==
  /\ sess[s].pc = "planning"
  /\ Put(s, PlanFailed(SliceOf(s)))
  /\ UNCHANGED << env, sideVars, bridgeVars >>

SessionLiveSettled(s, ok, computedRef) ==
  /\ sess[s].pc \in {"resolving", "executing"}
  /\ call[s].phase = "live"
  /\ Put(s, CallSettled(SliceOf(s), CallToolLiveSettled(call[s], ok), computedRef))
  /\ UNCHANGED << env, sideVars, bridgeVars >>

SessionSubSettled(s, ok, computedRef) ==
  /\ sess[s].pc \in {"resolving", "executing"}
  /\ call[s].phase = "sub"
  /\ Put(s, CallSettled(SliceOf(s), CallToolSubSettled(call[s], ok), computedRef))
  /\ UNCHANGED << env, sideVars, bridgeVars >>

\* ------------------------------------------------- PlaywrightCDPHandler pages
\* The page keys callers pass as args.pageId ('page-0' is the default) and the
\* number of tabs Chrome already has open when the handler attaches.
PageKeys == {"page-0", "page-1", "tab"}
MaxExistingPages == 2
NumOps == 2
Ops == 1..NumOps

\* this.pages = new Map(): 0 is an absent key, a positive number names a page.
NoPages == [k \in PageKeys |-> 0]

\* constructor (lines 10-16). created, madeFor and life are not fields of the
\* object: the pages that exist because of this handler, how many of them
\* context.newPage() made for each key, and which of connect() / disconnect()
\* has returned last.
NewHandler ==
  [isConnected |-> FALSE, browser |-> FALSE, context |-> FALSE, pages |-> NoPages,
   created |-> 0, madeFor |-> NoPages, life |-> "new"]

\* An operation of the handler (navigate, click, ...) between its awaits; late
\* records that it called into the browser after disconnect() had returned.
IdleOp == [pc |-> "idle", kind |-> "", key |-> "", page |-> 0, late |-> FALSE, outcome |-> "none"]

\* connect() has settled (lines 21-60): the tabs already open are registered as
\* page-0, page-1, ..., or a first page is made and registered as page-0.
PagesAfterConnect(existing) ==
  [k \in PageKeys |->
     IF k = "page-0" THEN 1
     ELSE IF k = "page-1" /\ existing >= 2 THEN 2
     ELSE 0]

HandlerConnect(stage, existing) ==
  /\ cdpHandler.life = "new"
  /\ LET after == HandleAfterConnect(stage)
     IN cdpHandler' =
          IF stage = "ok"
            THEN [cdpHandler EXCEPT !.isConnected = after.isConnected,
                                    !.browser = after.browser,
                                    !.context = after.context,
                                    !.pages = PagesAfterConnect(existing),
                                    !.created = IF existing = 0 THEN 1 ELSE existing,
                                    !.madeFor = [NoPages EXCEPT !["page-0"] =
                                                   IF existing = 0 THEN 1 ELSE 0],
                                    !.life = "connected"]
            ELSE [cdpHandler EXCEPT !.isConnected = after.isConnected,
                                    !.browser = after.browser,
                                    !.context = after.context,
                                    !.life = "failed"]
  /\ UNCHANGED << env, bridgeVars, call, sess, sessions, conversationHistory, msgs, ops >>

\* The bridge calls an operation of the handler it holds when
\* isConnectedToBrowser() (lines 104, 341). The operation runs getPage(pageId)
\* (lines 65-78): a registered key returns its page and the page is acted on;
\* an unknown key awaits context.newPage().
OpBegin(o, kind, key) ==
  /\ ops[o].pc = "idle"
  /\ isConnectedToBrowser(cdpHandler)
  /\ ops' = [ops EXCEPT ![o] =
       IF ~GetPageOk(cdpHandler)
         THEN [IdleOp EXCEPT !.outcome = "notConnected"]
       ELSE IF cdpHandler.pages[key] # 0
         THEN [IdleOp EXCEPT !.pc = "acting", !.kind = kind, !.key = key,
                             !.page = cdpHandler.pages[key]]
       ELSE [IdleOp EXCEPT !.pc = "newPage", !.kind = kind, !.key = key]]
  /\ UNCHANGED << env, bridgeVars, call, sess, sessions, conversationHistory, msgs, cdpHandler >>

\* await this.context.newPage() has settled: this.pages.set(pageId, page), then
\* the operation acts on the page (page.goto, page.click, ...).
NewPageSettled(o, ok) ==
  /\ ops[o].pc = "newPage"
  /\ IF ok
       THEN LET page == cdpHandler.created + 1
            IN /\ cdpHandler' = [cdpHandler EXCEPT !.pages[ops[o].key] = page,
                                                   !.created = page,
                                                   !.madeFor[ops[o].key] = @ + 1]
               /\ ops' = [ops EXCEPT ![o] =
                            [@ EXCEPT !.pc = "acting", !.page = page,
                                      !.late = cdpHandler.life = "disconnected"]]
       ELSE /\ ops' = [ops EXCEPT ![o] = [IdleOp EXCEPT !.outcome = "threw"]]
            /\ UNCHANGED cdpHandler
  /\ UNCHANGED << env, bridgeVars, call, sess, sessions, conversationHistory, msgs >>

\* The awaited page call has settled; navigate then awaits page.title()
\* (lines 83-90), the other operations return.
ActSettled(o, ok) ==
  /\ ops[o].pc = "acting"
  /\ ops' = [ops EXCEPT ![o] =
       IF ~ok THEN [IdleOp EXCEPT !.outcome = "threw"]
       ELSE IF ops[o].kind = "navigate"
         THEN [@ EXCEPT !.pc = "title", !.late = @ \/ cdpHandler.life = "disconnected"]
       ELSE [IdleOp EXCEPT !.outcome = "returned"]]
  /\ UNCHANGED << env, bridgeVars, call, sess, sessions, conversationHistory, msgs, cdpHandler >>

TitleSettled(o, ok) ==
  /\ ops[o].pc = "title"
  /\ ops' = [ops EXCEPT ![o] = [IdleOp EXCEPT !.outcome = IF ok THEN "returned" ELSE "threw"]]
  /\ UNCHANGED << env, bridgeVars, call, sess, sessions, conversationHistory, msgs, cdpHandler >>

\* disconnect() (lines 221-231), called by POST /mcp/disconnect when
\* isConnectedToBrowser() (line 420); it has no await.
HandlerDisconnect ==
  /\ isConnectedToBrowser(cdpHandler)
  /\ cdpHandler' = [cdpHandler EXCEPT !.pages = NoPages, !.context = FALSE,
                                      !.browser = FALSE, !.isConnected = FALSE,
                                      !.life = "disconnected"]
  /\ UNCHANGED << env, bridgeVars, call, sess, sessions, conversationHistory, msgs, ops >>

\* ------------------------------------------------- GeminiAgent.processMessage
\* Concurrent POST /gemini/chat requests without runSession, and the longest
\* history at which the model still accepts a new message.
NumMsgs == 2
Msgs == 1..NumMsgs
HistoryCap == 12

\* if (this.conversationHistory.length > 10) ... slice(-10)
HistoryLimit == 10

IdleMsg == [pc |-> "idle", ret |-> "none"]

TrimHistory(history) ==
  IF Len(history) > HistoryLimit
    THEN SubSeq(history, Len(history) - HistoryLimit + 1, Len(history))
    ELSE history

\* Lines 1016-1027: the assistant's entry is pushed, the history is trimmed and
\* the response is returned.
MessageAnswered(m) ==
  /\ conversationHistory' = TrimHistory(Append(conversationHistory, "assistant"))
  /\ msgs' = [msgs EXCEPT ![m] = [IdleMsg EXCEPT !.ret = "returned"]]

\* The catch of processMessage rethrows (lines 1028-1031).
MessageThrew(m) ==
  /\ msgs' = [msgs EXCEPT ![m] = [IdleMsg EXCEPT !.ret = "threw"]]
  /\ UNCHANGED conversationHistory

\* processMessage is entered (lines 943-960): the user's entry is pushed and the
\* planning service is awaited.
ProcessMessageBegin(m) ==
  /\ msgs[m].pc = "idle"
  /\ Len(conversationHistory) < HistoryCap
  /\ conversationHistory' = Append(conversationHistory, "user")
  /\ msgs' = [msgs EXCEPT ![m] = [IdleMsg EXCEPT !.pc = "planning"]]
  /\ UNCHANGED << env, bridgeVars, call, sess, sessions, cdpHandler, ops >>

\* callGeminiAPI has settled (lines 957-1014); action is what the parser made of
\* the text, "error" a rejection. chain_tools with no tool answers at once.
ProcessMessagePlanned(m, action, tools) ==
  /\ msgs[m].pc = "planning"
  /\ CASE action = "error" -> MessageThrew(m)
       [] action = "call_tool" ->
            /\ msgs' = [msgs EXCEPT ![m].pc = "tool"]
            /\ UNCHANGED conversationHistory
       [] action = "chain_tools" /\ tools > 0 ->
            /\ msgs' = [msgs EXCEPT ![m].pc = "chain"]
            /\ UNCHANGED conversationHistory
       [] OTHER -> MessageAnswered(m)
  /\ UNCHANGED << env, bridgeVars, call, sess, sessions, cdpHandler, ops >>

\* computeRefIfMissing and executeTool have settled; neither throws. A
\* successful single tool awaits the planning service again for the wording.
ProcessMessageToolSettled(m, success) ==
  /\ msgs[m].pc \in {"tool", "chain"}
  /\ IF msgs[m].pc = "tool" /\ success
       THEN /\ msgs' = [msgs EXCEPT ![m].pc = "format"]
            /\ UNCHANGED conversationHistory
       ELSE MessageAnswered(m)
  /\ UNCHANGED << env, bridgeVars, call, sess, sessions, cdpHandler, ops >>

ProcessMessageFormatted(m, ok) ==
  /\ msgs[m].pc = "format"
  /\ IF ok THEN MessageAnswered(m) ELSE MessageThrew(m)
  /\ UNCHANGED << env, bridgeVars, call, sess, sessions, cdpHandler, ops >>

\* POST /gemini/clear: clearHistory() (lines 1037-1039).
ClearHistory ==
  /\ conversationHistory' = << >>
  /\ UNCHANGED << env, bridgeVars, call, sess, sessions, msgs, cdpHandler, ops >>

\* constructor of the agent and of the handler; nothing running.
SideInit ==
  /\ conversationHistory = << >>
  /\ msgs = [m \in Msgs |-> IdleMsg]
  /\ cdpHandler = NewHandler
  /\ ops = [o \in Ops |-> IdleOp]

\* -------------------------------------------------------------- specifications
\* Every listening port is Chrome's debugging port and answers the probe.
ChromeAnswers == [p \in Ports |-> "ok"]

EnvChoices ==
  [useExistingBrowser : BOOLEAN, geminiKey : BOOLEAN, listening : { {}, {9222}, {9224} },
   probe : { ChromeAnswers }, cdpOverride : { 0 }]

InitWith(e) ==
  /\ env = e
  /\ mcpClient = "null"
  /\ isConnected = FALSE
  /\ playwrightCDP = NullHandle
  /\ geminiAgent = NullAgent
  /\ wrapperMade = FALSE
  /\ conn = [c \in 1..NumConn |-> IdleConn]
  /\ disc = "idle"
  /\ call = [i \in Invokers |-> NoCall]
  /\ sess = [s \in Sessions |-> IdleSess]
  /\ sessions = [s \in Sessions |-> NoRecord]
  /\ SideInit

\* SIGINT / SIGTERM (lines 623-636): the subprocess client is closed and the
\* process exits; nothing is sent to Chrome. What follows is a newly started
\* bridge process under the same environment.
ProcessShutdown ==
  /\ mcpClient' = "null"
  /\ isConnected' = FALSE
  /\ playwrightCDP' = NullHandle
  /\ geminiAgent' = NullAgent
  /\ wrapperMade' = FALSE
  /\ conn' = [c \in ConnReqs |-> IdleConn]
  /\ disc' = "idle"
  /\ call' = [i \in Invokers |-> NoCall]
  /\ sess' = [s \in Sessions |-> IdleSess]
  /\ sessions' = [s \in Sessions |-> NoRecord]
  /\ conversationHistory' = << >>
  /\ msgs' = [m \in Msgs |-> IdleMsg]
  /\ cdpHandler' = NewHandler
  /\ ops' = [o \in Ops |-> IdleOp]
  /\ UNCHANGED env

SessionActive == \E s \in Sessions : sess[s].pc \notin {"idle", "returned"}
SessionStarted == \E s \in Sessions : sess[s].pc # "idle"

ConnectStep ==
  \/ \E c \in ConnReqs : ConnectDetected(c)
  \/ \E c \in ConnReqs, stage \in {"ok", "attach", "context", "page"} : ConnectCdpSettled(c, stage)
  \/ \E c \in ConnReqs, ok \in BOOLEAN : ConnectMcpSettled(c, ok)
  \/ \E c \in ConnReqs, ok \in BOOLEAN : AgentInitSettled(c, ok)

DisconnectStep ==
  \/ DisconnectBegin
  \/ \E ok \in BOOLEAN : DisconnectClosed(ok)

CallerStep ==
  \/ \E i \in Callers, name \in ToolNames, args \in ArgChoices : AgentCallTool(i, name, args)
  \/ \E i \in Callers, ok \in BOOLEAN : CallerLiveSettled(i, ok)
  \/ \E i \in Callers, ok \in BOOLEAN : CallerSubSettled(i, ok)

EndpointStep ==
  \/ \E i \in Callers, name \in ToolNames, args \in ArgChoices : EndpointCallTool(i, name, args)
  \/ \E i \in Callers : EndpointListTools(i)
  \/ \E i \in Callers, ok \in BOOLEAN : CallerListSettled(i, ok)

SessionStep(S, texts) ==
  \/ \E s \in S, text \in texts : SessionPlanSettled(s, text)
  \/ \E s \in S : SessionPlanFailed(s)
  \/ \E s \in S, ok \in BOOLEAN, ref \in {"", "#auto"} : SessionLiveSettled(s, ok, ref)
  \/ \E s \in S, ok \in BOOLEAN, ref \in {"", "#auto"} : SessionSubSettled(s, ok, ref)

\* The bridge and the dispatcher under every environment.
InitBridge == \E e \in EnvChoices : InitWith(e)

NextBridge ==
  \/ \E c \in ConnReqs, kind \in {"connect", "init"} : ConnectBegin(c, kind)
  \/ ConnectStep
  \/ DisconnectStep
  \/ CallerStep
  \/ EndpointStep
  \/ ProcessShutdown

SpecBridge == InitBridge /\ [][NextBridge]_vars

\* Connects on machines where any of the candidate ports may be held by Chrome
\* or by some other server that answers the probe badly, with and without
\* CHROME_CDP_ENDPOINT set.
OverrideChoices == { 0, 9224 }

DetectEnvs ==
  [useExistingBrowser : {TRUE}, geminiKey : {TRUE}, listening : SUBSET Ports,
   probe : [Ports -> ProbeAnswers], cdpOverride : OverrideChoices]

InitDetect == \E e \in DetectEnvs : InitWith(e)

NextDetect ==
  \/ \E c \in ConnReqs : ConnectBegin(c, "connect")
  \/ ConnectStep

SpecDetect == InitDetect /\ [][NextDetect]_vars

\* One task session on a bridge started with Chrome listening on 9224 and a
\* Gemini key in the environment. Connect requests come before the session
\* request; POST /mcp/disconnect may come at any time.
SessionEnv ==
  [useExistingBrowser |-> TRUE, geminiKey |-> TRUE, listening |-> {9224},
   probe |-> ChromeAnswers, cdpOverride |-> 0]

Init == InitWith(SessionEnv)

Next ==
  \/ \E c \in ConnReqs : ~SessionStarted /\ ConnectBegin(c, "init")
  \/ ConnectStep
  \/ DisconnectStep
  \/ \E bg \in BOOLEAN, opt \in 1..MaxIter : StartSession(1, bg, opt)
  \/ SessionStep({1}, PlannerTexts)

Spec == Init /\ [][Next]_vars

\* Sessions with each kind of progress callback.
CallbackTexts ==
  { << Tok("obj", Obj("call_tool", "browser_navigate", Arg("", "u1"), "")) >>,
    << Tok("obj", Obj("call_tool", "browser_click", Hint("Search"), "")) >>,
    << Tok("obj", Obj("done", "", NoArgs, "Navigated")) >> }

NextCallback ==
  \/ \E c \in ConnReqs : ~SessionStarted /\ ConnectBegin(c, "init")
  \/ ConnectStep
  \/ \E bg \in BOOLEAN, opt \in 1..MaxIter : StartSession(1, bg, opt)
  \/ \E opt \in 1..MaxIter : StartLibrarySession(1, opt)
  \/ SessionStep({1}, CallbackTexts)

SpecCallback == Init /\ [][NextCallback]_vars

\* Background sessions side by side, each with its own record in the store, on
\* the same bridge; the planning service answers with one object.
StoreTexts ==
  { << Tok("obj", Obj("call_tool", "browser_navigate", Arg("", "u1"), "")) >>,
    << Tok("obj", Obj("done", "", NoArgs, "Navigated")) >>,
    << Tok("obj", Obj("chain_tools", "", NoArgs, "")) >> }

NextStore ==
  \/ \E c \in ConnReqs : ~SessionStarted /\ ConnectBegin(c, "init")
  \/ ConnectStep
  \/ \E s \in Sessions, opt \in 1..MaxIter : StartSession(s, TRUE, opt)
  \/ SessionStep(Sessions, StoreTexts)

SpecStore == Init /\ [][NextStore]_vars


\* Sessions of either endpoint when no planning call and no dispatcher call of
\* a session stays pending for ever: a call that has not resolved eventually
\* rejects.
LiveTexts ==
  { << Tok("obj", Obj("call_tool", "browser_navigate", Arg("", "u1"), "")) >>,
    << Tok("obj", Obj("call_tool", "browser_click", Arg("#a", ""), "")) >>,
    << Tok("obj", Obj("done", "", NoArgs, "Navigated")) >> }

NextLive ==
  \/ \E c \in ConnReqs : ~SessionStarted /\ ConnectBegin(c, "init")
  \/ ConnectStep
  \/ \E bg \in BOOLEAN, opt \in 1..MaxIter : StartSession(1, bg, opt)
  \/ SessionStep({1}, LiveTexts)

SpecLive ==
  /\ Init /\ [][NextLive]_vars
  /\ \A s \in Sessions :
       /\ WF_vars(SessionPlanFailed(s))
       /\ WF_vars(SessionLiveSettled(s, FALSE, ""))
       /\ WF_vars(SessionSubSettled(s, FALSE, ""))

\* Sessions with a budget of GuardIter iterations whose planner answers with
\* two call_tool actions, A (a navigate) and B (a click described by a hint, to
\* which target resolution may add a ref), in any order.
GuardTexts ==
  { << Tok("obj", Obj("call_tool", "browser_navigate", Arg("", "u1"), "")) >>,
    << Tok("obj", Obj("call_tool", "browser_click", Hint("Search"), "")) >> }

NextGuard ==
  \/ \E c \in ConnReqs : ~SessionStarted /\ ConnectBegin(c, "init")
  \/ ConnectStep
  \/ StartSession(1, FALSE, GuardIter)
  \/ SessionStep({1}, GuardTexts)

SpecGuard == Init /\ [][NextGuard]_vars

\* Sessions started with every choice of options.maxIterations; the planner
\* has one call_tool action, so the loop guard ends a session the budget
\* does not.
OptionChoices == { NoOption } \cup { Given(n) : n \in 0..MaxIter }

NextBudget ==
  \/ \E c \in ConnReqs : ~SessionStarted /\ ConnectBegin(c, "init")
  \/ ConnectStep
  \/ \E bg \in BOOLEAN, opt \in OptionChoices : StartSessionOptions(1, bg, opt)
  \/ SessionStep({1}, StoreTexts)

SpecBudget == Init /\ [][NextBudget]_vars


\* Connect requests in flight at once: the startup connect (lines 601-608) and
\* POST /mcp/connect or POST /gemini/initialize, with disconnects between them.
NumRacing == 2

InitRace ==
  /\ env = SessionEnv
  /\ mcpClient = "null"
  /\ isConnected = FALSE
  /\ playwrightCDP = NullHandle
  /\ geminiAgent = NullAgent
  /\ wrapperMade = FALSE
  /\ conn = [c \in 1..NumRacing |-> IdleConn]
  /\ disc = "idle"
  /\ call = [i \in Invokers |-> NoCall]
  /\ sess = [s \in Sessions |-> IdleSess]
  /\ sessions = [s \in Sessions |-> NoRecord]
  /\ SideInit

NextRace ==
  \/ \E c \in ConnReqs, kind \in {"connect", "init"} : ConnectBegin(c, kind)
  \/ ConnectStep
  \/ DisconnectStep

SpecRace == InitRace /\ [][NextRace]_vars

\* One handler from its construction to its disconnect, with the operations the
\* bridge's dispatcher and POST /mcp/tools/:toolName run on it concurrently.
OpKinds == {"click", "navigate"}

NextPages ==
  \/ \E stage \in {"ok", "attach", "context", "page"}, existing \in 0..MaxExistingPages :
       HandlerConnect(stage, existing)
  \/ \E o \in Ops, kind \in OpKinds, key \in PageKeys : OpBegin(o, kind, key)
  \/ \E o \in Ops, ok \in BOOLEAN : NewPageSettled(o, ok)
  \/ \E o \in Ops, ok \in BOOLEAN : ActSettled(o, ok)
  \/ \E o \in Ops, ok \in BOOLEAN : TitleSettled(o, ok)
  \/ HandlerDisconnect

SpecPages == Init /\ [][NextPages]_vars

\* One agent answering POST /gemini/chat and POST /gemini/clear.
PlannedActions == {"error", "respond", "call_tool", "chain_tools"}

NextChat ==
  \/ \E m \in Msgs : ProcessMessageBegin(m)
  \/ \E m \in Msgs, action \in PlannedActions, tools \in 0..1 : ProcessMessagePlanned(m, action, tools)
  \/ \E m \in Msgs, success \in BOOLEAN : ProcessMessageToolSettled(m, success)
  \/ \E m \in Msgs, ok \in BOOLEAN : ProcessMessageFormatted(m, ok)
  \/ ClearHistory

SpecChat == Init /\ [][NextChat]_vars

\* A session during which POST /mcp/disconnect and POST /mcp/connect are
\* processed; every planning call and every backend call is eventually
\* answered or fails.
CutIter == 2

CutTexts ==
  { << Tok("obj", Obj("call_tool", "browser_navigate", Arg("", "u1"), "")) >>,
    << Tok("obj", Obj("done", "", NoArgs, "Navigated")) >> }

NextCut ==
  \/ \E c \in ConnReqs : ~SessionStarted /\ ConnectBegin(c, "init")
  \/ \E c \in ConnReqs : SessionStarted /\ ConnectBegin(c, "connect")
  \/ ConnectStep
  \/ DisconnectStep
  \/ StartSession(1, FALSE, CutIter)
  \/ SessionStep({1}, CutTexts)

SpecCut ==
  /\ Init /\ [][NextCut]_vars
  /\ \A s \in Sessions :
       /\ WF_vars(SessionPlanFailed(s))
       /\ WF_vars(SessionLiveSettled(s, FALSE, ""))
       /\ WF_vars(SessionSubSettled(s, FALSE, ""))

\* ------------------------------------------------------------------- claims
LoopGuardMessage == Msg("Stopped: repeated action detected (no progress).")

\* Executed so far: the executeTool calls that have returned.
Executed(x) == x.execCount - (IF x.pc = "executing" THEN 1 ELSE 0)

AllCallTool(log) == \A j \in 1..Len(log) : log[j].action = "call_tool"

\* C1 (as amended): in every state of a task session the length of the trace is
\* the number of call_tool actions executed so far; it never exceeds the number
\* of planning-service calls, and it is less than that number once the session
\* has ended by a done/respond action, a loop-guard stop, an unknown action or
\* a planning-service failure (the two numbers are equal when the session ends
\* on its iteration budget).
C1_TraceLengthIsExecutedCalls ==
  \A s \in Sessions :
    LET x == sess[s] IN
    /\ Len(x.trace) = Executed(x)
    /\ Len(x.trace) <= x.planCalls
    /\ x.pc \in {"planning", "resolving", "executing"} => Len(x.trace) = x.planCalls - 1
    /\ x.end \in {"finish", "loopGuard", "unknown", "planError"} => Len(x.trace) = x.planCalls - 1
    /\ x.end = "maxIterations" => Len(x.trace) = x.planCalls

\* C1 as stated: the trace length is the number of executed call_tool actions
\* and is never the number of planning-service calls.
C1_TraceLengthNeverPlanningCalls ==
  \A s \in Sessions :
    LET x == sess[s] IN
    /\ Len(x.trace) = Executed(x)
    /\ x.pc # "idle" => Len(x.trace) # x.planCalls

\* A session stopped by an unknown action after two executed steps.
C1_Witness ==
  \E s \in Sessions :
    /\ sess[s].pc = "returned" /\ sess[s].end = "unknown"
    /\ Len(sess[s].trace) = 2 /\ sess[s].planCalls = 3

\* The planner's answers i, i+1, i+2 are the same call_tool action.
SameActionRun(log, i) ==
  /\ i + 2 <= Len(log)
  /\ \A j \in i..(i + 2) : log[j].action = "call_tool" /\ Signature(log[j]) = Signature(log[i])

\* C2: when the planning service answers with the same (tool, serialized args)
\* call_tool action three times in a row, the session has stopped at the third
\* answer: that answer is the last planning call, the action was executed for
\* the first two answers only, the trace ends with those two Steps, and no
\* dispatcher call is in flight.
C2_LoopGuardStopsAtThird ==
  \A s \in Sessions :
    LET x == sess[s] IN
    \A i \in 1..Len(x.planLog) :
      SameActionRun(x.planLog, i) =>
        /\ Len(x.planLog) = i + 2
        /\ x.pc = "returned" /\ x.end = "loopGuard"
        /\ x.planCalls = i + 2
        /\ x.execCount = i + 1
        /\ Len(x.trace) = i + 1
        /\ \A j \in {i, i + 1} : x.trace[j].tool = x.planLog[i].tool
        /\ call[s].phase = "idle"

C2_Witness ==
  \E s \in Sessions :
    /\ sess[s].pc = "returned" /\ sess[s].end = "loopGuard"
    /\ SameActionRun(sess[s].planLog, 1)
    /\ Len(sess[s].trace) = 2

\* C3: a session whose planning service always answered call_tool, without
\* tripping the loop-guard and without failing, and which has returned, has made
\* exactly maxIterations planning calls and executed exactly maxIterations
\* steps, and returned the 'Max iterations (N) reached' failure; no session ever
\* executes more than maxIterations steps.
C3_IterationCap ==
  \A s \in Sessions :
    LET x == sess[s] IN
    /\ (x.pc = "returned" /\ AllCallTool(x.planLog) /\ x.end \notin {"loopGuard", "planError"}) =>
         /\ x.end = "maxIterations"
         /\ x.planCalls = x.maxIterations
         /\ x.execCount = x.maxIterations
         /\ Len(x.trace) = x.maxIterations
         /\ x.ret = [set |-> TRUE, success |-> FALSE,
                     message |-> MaxIterationsMessage(x.maxIterations)]
    /\ x.execCount <= x.maxIterations
    /\ Len(x.trace) <= x.maxIterations

C3_Witness ==
  \E s \in Sessions :
    /\ sess[s].pc = "returned" /\ sess[s].end = "maxIterations"
    /\ sess[s].maxIterations = 3 /\ Len(sess[s].trace) = 3
    /\ AllCallTool(sess[s].planLog)

Failures == {"unknown", "planError", "maxIterations"}

\* C4 as stated: the record of a background session whose run ended in a
\* failure (an unknown action tag, a failed planning call, the iteration budget
\* used up) has status error with the reason in error, and a record has status
\* finished only when the run ended by a done/respond action.
C4_FailureRecordedAsError ==
  \A s \in Sessions :
    (sess[s].bg /\ sess[s].pc = "returned") =>
      /\ sess[s].end \in Failures => sessions[s].status = "error" /\ sessions[s].error # ""
      /\ sessions[s].status = "finished" => sess[s].end = "finish"

\* C5 as stated: the record of a background session stopped by the loop-guard
\* has status error, or a result marked unsuccessful, with the 'repeated action'
\* message.
C5_LoopGuardRecordedAsStopped ==
  \A s \in Sessions :
    (sess[s].bg /\ sess[s].pc = "returned" /\ sess[s].end = "loopGuard") =>
      \/ sessions[s].status = "error"
      \/ /\ sessions[s].result.set
         /\ ~sessions[s].result.success
         /\ sessions[s].result.message = LoopGuardMessage

StatusRank(status) ==
  CASE status = "absent" -> 0
    [] status = "created" -> 1
    [] status = "running" -> 2
    [] status \in {"finished", "error"} -> 3
    [] OTHER -> 4

\* C6: a record of the Session Store, once made, has status created, running,
\* finished or error; no step moves the status backwards; and no step of any
\* session changes the status, result or error of a record that is finished or
\* error.
C6_StatusMachine ==
  [][\A s \in Sessions :
       /\ StatusRank(sessions'[s].status) <= 3
       /\ StatusRank(sessions[s].status) <= StatusRank(sessions'[s].status)
       /\ sessions[s].status \in {"finished", "error"} =>
            /\ sessions'[s].status = sessions[s].status
            /\ sessions'[s].result = sessions[s].result
            /\ sessions'[s].error = sessions[s].error]_vars

\* Both records are terminal, and the second session reported progress: the
\* later of the two final updates came when the other record was terminal.
C6_Witness ==
  /\ \A s \in Sessions : sessions[s].status = "finished" /\ sess[s].pc = "returned"
  /\ Len(sessions[1].trace) = 0
  /\ Len(sessions[2].trace) = 2

\* C7: when the planning service has answered k call_tool actions and then a
\* done action with a message m, the session has returned success with message
\* m, its trace is k Steps, the j-th being iteration j with the tool name of the
\* planner's j-th action, and a background session's record is finished with
\* that result and trace.
C7_DoneAfterCalls ==
  \A s \in Sessions :
    LET x == sess[s]
        n == Len(x.planLog)
    IN (/\ n >= 1
        /\ x.planLog[n].action = "done"
        /\ ~Falsy(x.planLog[n].message)
        /\ AllCallTool(SubSeq(x.planLog, 1, n - 1))) =>
         /\ x.pc = "returned"
         /\ x.ret = [set |-> TRUE, success |-> TRUE, message |-> x.planLog[n].message]
         /\ Len(x.trace) = n - 1
         /\ \A j \in 1..(n - 1) :
              x.trace[j].tool = x.planLog[j].tool /\ x.trace[j].iteration = j
         /\ x.bg => /\ sessions[s].status = "finished"
                    /\ sessions[s].result = x.ret
                    /\ sessions[s].trace = x.trace

\* Scenario A as a background session: one navigate step, then done 'Navigated'.
C7_Witness ==
  /\ sess[1].bg /\ sess[1].pc = "returned"
  /\ Len(sess[1].planLog) = 2
  /\ sess[1].planLog[1].tool = "browser_navigate"
  /\ sess[1].planLog[2].action = "done"
  /\ sessions[1].status = "finished"
  /\ sessions[1].result.message = Msg("Navigated")
  /\ Len(sessions[1].trace) = 1

\* Text that is not JSON: not empty, no object in it, and no "{" next to "}".
NonJson(t) ==
  /\ t # << >>
  /\ \A i \in 1..Len(t) : t[i].kind # "obj"
  /\ \A i \in 1..(Len(t) - 1) : ~(t[i].kind = "lbrace" /\ t[i + 1].kind = "rbrace")

\* C8: when the first answer of the planning service is text that is not JSON,
\* the step that takes it makes it a respond action with that text as message
\* and ends the session: success with that text, an empty trace, no dispatcher
\* call made, and a background session's record finished.
C8_MalformedFirstResponse ==
  [][\A t \in PlannerTexts :
       (NonJson(t) /\ sess[1].planCalls = 1 /\ SessionPlanSettled(1, t)) =>
         /\ sess'[1].pc = "returned"
         /\ sess'[1].parsed.action = "respond"
         /\ sess'[1].parsed.message = Raw(t)
         /\ sess'[1].ret = [set |-> TRUE, success |-> TRUE, message |-> Raw(t)]
         /\ sess'[1].trace = << >>
         /\ sess'[1].execCount = 0
         /\ call'[1] = NoCall
         /\ sess'[1].bg => sessions'[1].status = "finished" /\ sessions'[1].trace = << >>]_vars

\* A background session ended by a two-token text that is not JSON.
C8_Witness ==
  /\ sess[1].bg /\ sess[1].pc = "returned" /\ sess[1].planCalls = 1
  /\ sess[1].parsed.action = "respond"
  /\ Len(sess[1].parsed.message.raw) = 2 /\ NonJson(sess[1].parsed.message.raw)
  /\ sessions[1].status = "finished"

\* C9: a dispatcher invocation for a browser-category tool that began when no
\* Live-Browser Handle was connected invokes no live-browser operation: it is on
\* the subprocess path (the HTTP endpoint possibly still in its lazy connect),
\* with at most one subprocess call.
C9_NoHandleRoutesToSubprocess ==
  \A i \in Invokers :
    LET d == call[i] IN
    (d.matched /\ ~d.cdpAtEntry) =>
      /\ d.liveOps = 0 /\ ~d.liveThrew /\ d.phase # "live"
      /\ d.phase \in {"sub", "connect"} \/ d.outcome \in {"sub", "subError", "notConnected"}
      /\ d.phase = "connect" => d.via = "endpoint" /\ d.subCalls = 0
      /\ d.phase = "sub" => d.subCalls = 1 /\ d.subName = d.name /\ d.subArgs = d.args
      /\ d.subCalls <= 1

\* A browser-category call in the subprocess while a handle object is attached
\* whose connect() has not completed.
C9_Witness ==
  \E i \in Callers :
    /\ call[i].phase = "sub" /\ call[i].matched /\ ~call[i].cdpAtEntry
    /\ LiveOp(call[i].name) # "none"
    /\ playwrightCDP.ref /\ ~playwrightCDP.isConnected

C11_BrowserNeverClosed ==
  [][/\ env.listening \subseteq env'.listening
     /\ findChromeCDPEndpoint(env') = findChromeCDPEndpoint(env)]_vars

\* After a live operation had returned and a disconnect had reset the bridge, a
\* new connect has probed again and made a handle for the same endpoint.
C11_Witness ==
  \E i \in Callers, c \in ConnReqs :
    /\ call[i].phase = "idle" /\ call[i].outcome = "live"
    /\ mcpClient = "null" /\ ~isConnected /\ disc = "idle"
    /\ conn[c].pc = "cdp"
    /\ playwrightCDP = NewHandleAt(findChromeCDPEndpoint(env))
    /\ playwrightCDP.cdpEndpoint \in env.listening

\* C12: a request that enters connectToMCP when a connect has completed and no
\* disconnect has begun returns true in the same step: the subprocess client,
\* the connected flag, the Live-Browser Handle and the agent are what they were,
\* and the request runs no detection and creates no client.
C12_ConnectIdempotent ==
  [][\A c \in ConnReqs :
       (/\ isConnected /\ mcpClient = "connected" /\ disc = "idle"
        /\ ConnectBegin(c, "connect")) =>
         /\ conn'[c].pc = "idle" /\ conn'[c].ret = "true"
         /\ mcpClient' = mcpClient /\ isConnected' = isConnected
         /\ playwrightCDP' = playwrightCDP
         /\ geminiAgent' = geminiAgent]_vars

\* A second connect has returned true next to a connected handle.
C12_Witness ==
  \E c \in ConnReqs :
    /\ conn[c].pc = "idle" /\ conn[c].kind = "connect" /\ conn[c].ret = "true"
    /\ isConnected /\ mcpClient = "connected" /\ disc = "idle"
    /\ CdpAvailable
    /\ \E i \in Callers : call[i].outcome = "live"

\* Live-browser use is enabled and every candidate port refuses the probe.
AllPortsRefuse ==
  /\ env.useExistingBrowser
  /\ \A k \in 1..Len(possiblePorts) : possiblePorts[k] \notin env.listening

\* C13: when every candidate port refuses the probe, no Live-Browser Handle is
\* ever created; a connect whose subprocess connection succeeds returns true
\* with the bridge connected (to its client, unless a disconnect took it away
\* meanwhile); a browser-category call made on the connected
\* bridge goes to the subprocess without a live operation, and returns the
\* subprocess result when the subprocess answers.
C13_SubprocessOnlyMode ==
  [][AllPortsRefuse =>
       /\ playwrightCDP' = NullHandle
       /\ \A c \in ConnReqs :
            ConnectMcpSettled(c, TRUE) =>
              /\ conn'[c].ret = "true" /\ isConnected'
              /\ conn[c].ownsClient => mcpClient' = "connected"
       /\ \A i \in Callers, name \in ToolNames, args \in ArgChoices :
            (AgentCallTool(i, name, args) /\ IsBrowserTool(name) /\ mcpClient = "connected") =>
              /\ call'[i].phase = "sub" /\ call'[i].liveOps = 0 /\ call'[i].subCalls = 1
       /\ \A i \in Callers :
            CallerSubSettled(i, TRUE) =>
              /\ call'[i].outcome = "sub" /\ call'[i].liveOps = 0]_vars

\* Nothing listens, a connect has returned true and a browser-category call has
\* returned the subprocess result.
C13_Witness ==
  /\ AllPortsRefuse
  /\ isConnected /\ mcpClient = "connected" /\ playwrightCDP = NullHandle
  /\ \E c \in ConnReqs : conn[c].pc = "idle" /\ conn[c].ret = "true"
  /\ \E i \in Callers :
       /\ call[i].phase = "idle" /\ call[i].matched /\ call[i].outcome = "sub"
       /\ call[i].liveOps = 0 /\ call[i].subCalls = 1

\* C14: a listTools invocation (GET /mcp/tools, or the wrapper's listTools
\* inside an agent's initialize) never invokes the Live-Browser Handle: a
\* catalogue, in a response or held by an agent, was answered by the subprocess
\* client; and GET /mcp/tools arriving while the bridge counts as connected but
\* has no subprocess client answers 'not connected' without any backend call,
\* a connected Live-Browser Handle notwithstanding.
C14_CatalogFromSubprocess ==
  [][/\ \A i \in Invokers :
          LET d == call'[i] IN
          d.op = "listTools" =>
            /\ d.liveOps = 0 /\ d.phase # "live" /\ d.subCalls = 0
            /\ d.phase = "idle" => d.outcome \in {"none", "catalog", "subError", "notConnected"}
            /\ d.outcome = "catalog" => d.subLists = 1 /\ d.subSettled = "ok"
            /\ d.outcome = "notConnected" => d.subLists = 0
     /\ geminiAgent'.availableTools \in {"null", "catalog"}
     /\ \A s \in Sessions : sess'[s].agent.availableTools \in {"null", "catalog"}
     /\ \A i \in Callers :
          (EndpointListTools(i) /\ isConnected /\ mcpClient = "null") =>
            /\ call'[i].phase = "idle" /\ call'[i].outcome = "notConnected"
            /\ call'[i].subLists = 0
            /\ playwrightCDP' = playwrightCDP]_vars

\* GET /mcp/tools has answered 'not connected' on a bridge that counts as
\* connected and whose last connect returned true, although a Live-Browser
\* Handle was connected when it arrived and is connected now.
C14_Witness ==
  \E i \in Callers :
    /\ call[i].op = "listTools" /\ call[i].phase = "idle"
    /\ call[i].outcome = "notConnected" /\ call[i].cdpAtEntry
    /\ CdpAvailable /\ mcpClient = "null" /\ isConnected
    /\ \A c \in ConnReqs : conn[c].ret # "false"

\* C15: the response of a session-mode POST /gemini/chat was produced when the
\* session's record had status running, the controller was awaiting its first
\* planning call, and no planning call or tool execution of the session had
\* completed; a terminal status is in the record only once the task has
\* returned, which is after the response.
C15_SessionRequestDoesNotWait ==
  \A s \in Sessions :
    (sess[s].bg /\ sess[s].pc # "idle") =>
      /\ sess[s].resp.set
      /\ sess[s].resp.status = "running"
      /\ sess[s].resp.pc = "planning"
      /\ sess[s].resp.plansDone = 0 /\ sess[s].resp.calls = 0
      /\ sessions[s].status \in {"running", "step", "finished", "error"}
      /\ sessions[s].status \in {"finished", "error"} <=> sess[s].pc = "returned"

\* A background session that has ended after a tool call, long after the
\* response was given on a running record.
C15_Witness ==
  /\ sess[1].bg /\ sess[1].pc = "returned" /\ sessions[1].status = "finished"
  /\ sess[1].resp.set /\ sess[1].resp.status = "running"
  /\ sess[1].planCalls >= 2 /\ sess[1].execCount >= 1

IsPrefix(s, t) == Len(s) <= Len(t) /\ \A k \in 1..Len(s) : s[k] = t[k]

\* C16: a detection pass probes the candidate ports in the order 9222, 9223,
\* 9224, 9225 without repeating or skipping one, stops at the first port that
\* answers ok with a JSON body and returns it, returns null exactly when no
\* port answers so (having probed all four), and never throws; connect gives
\* the returned endpoint to the new handle, or has no handle.
C16_DetectionOrder ==
  [][\A c \in ConnReqs :
       ConnectDetected(c) =>
         LET r == ProbeFrom(1, env, << >>) IN
         /\ conn'[c].probed = r.probed /\ ~r.threw
         /\ possiblePorts = << 9222, 9223, 9224, 9225 >>
         /\ IsPrefix(r.probed, possiblePorts) /\ Len(r.probed) >= 1
         /\ \A k \in 1..(Len(r.probed) - 1) : Probe(r.probed[k], env) # "ok"
         /\ r.endpoint # 0 =>
              /\ r.endpoint = r.probed[Len(r.probed)]
              /\ Probe(r.endpoint, env) = "ok"
              /\ playwrightCDP' = NewHandleAt(r.endpoint) /\ conn'[c].pc = "cdp"
         /\ r.endpoint = 0 <=> \A port \in Ports : Probe(port, env) # "ok"
         /\ r.endpoint = 0 =>
              /\ r.probed = possiblePorts
              /\ playwrightCDP' = NullHandle /\ conn'[c].pc = "mcp"]_vars

\* 9222 answers with a body that is not JSON, 9223 with a non-2xx status, 9224
\* is Chrome: three ports were probed and the handle is for 9224, although 9225
\* would answer too.
C16_Witness ==
  \E c \in ConnReqs :
    /\ conn[c].pc = "cdp" /\ conn[c].probed = << 9222, 9223, 9224 >>
    /\ Probe(9222, env) = "badJson" /\ Probe(9223, env) = "notOk"
    /\ Probe(9225, env) = "ok"
    /\ playwrightCDP = NewHandleAt(9224)

\* C17: when CHROME_CDP_ENDPOINT is set and live-browser use is enabled, the
\* handle that connect creates is for the override endpoint; the probed ports
\* decide the endpoint only when the variable is unset.
C17_OverrideDecidesEndpoint ==
  [][\A c \in ConnReqs :
       (ConnectDetected(c) /\ env.useExistingBrowser) =>
         IF env.cdpOverride # 0
           THEN playwrightCDP' = NewHandleAt(env.cdpOverride)
           ELSE playwrightCDP' =
                  IF findChromeCDPEndpoint(env) # 0
                    THEN NewHandleAt(findChromeCDPEndpoint(env)) ELSE NullHandle]_vars

\* String.prototype.toLowerCase on the characters of the names used here.
LowerChar(ch) == CASE ch = "B" -> "b" [] ch = "N" -> "n" [] OTHER -> ch

LowerCase(s) ==
  CHOOSE t \in ToolNames :
    Chars(t) = [k \in 1..Len(Chars(s)) |-> LowerChar(Chars(s)[k])]

\* C18: a call is routed as the call of the lower-cased name would be: both go
\* to the live browser or both go to the subprocess.
C18_CaseInsensitiveRouting ==
  [][\A i \in Callers, name \in ToolNames, args \in ArgChoices :
       AgentCallTool(i, name, args) =>
         /\ call'[i].phase = CallToolEnter(LowerCase(name), args).phase
         /\ call'[i].liveOps = CallToolEnter(LowerCase(name), args).liveOps
         /\ call'[i].subCalls = CallToolEnter(LowerCase(name), args).subCalls]_vars

\* The invocation of name has no live operation to await: no connected handle,
\* no match in the table, or a match that maps to no handler operation.
NoLiveRoute(name) == ~CdpAvailable \/ ~IsBrowserTool(name) \/ LiveOp(name) = "none"

\* C19 as stated: one invocation issues at most one live operation and at most
\* one subprocess callTool, and the subprocess callTool is issued exactly when
\* there is no live route or the live operation failed.
C19_SubprocessCalledIff ==
  [][\A i \in Callers :
       /\ \A name \in ToolNames, args \in ArgChoices :
            AgentCallTool(i, name, args) =>
              /\ call'[i].liveOps <= 1 /\ call'[i].subCalls <= 1
              /\ call'[i].subCalls = 1 <=> (NoLiveRoute(name) \/ call'[i].liveThrew)
       /\ \A ok \in BOOLEAN :
            (CallerLiveSettled(i, ok) /\ call[i].via = "wrapper") =>
              /\ call'[i].liveOps = 1 /\ call'[i].subCalls <= 1
              /\ call'[i].subCalls = 1 <=> ~ok
              /\ ok => call'[i].outcome = "live"]_vars

\* C19, corrected: one invocation issues at most one live operation and at most
\* one subprocess callTool; it takes the subprocess path exactly when there is
\* no live route or the live operation failed, and on that path it issues the
\* subprocess callTool if a subprocess client exists and otherwise throws
\* 'MCP client not connected' having called no backend; when the live operation
\* succeeds the subprocess is not called and the live result is returned.
C19_SubprocessPathIff ==
  [][\A i \in Callers :
       /\ \A name \in ToolNames, args \in ArgChoices :
            AgentCallTool(i, name, args) =>
              LET d == call'[i] IN
              /\ d.liveOps <= 1 /\ d.subCalls <= 1
              /\ d.liveOps = 1 <=> ~NoLiveRoute(name)
              /\ d.phase = "live" <=> (~NoLiveRoute(name) /\ ~d.liveThrew)
              /\ d.subCalls = 1 <=> ((NoLiveRoute(name) \/ d.liveThrew) /\ mcpClient # "null")
              /\ ((NoLiveRoute(name) \/ d.liveThrew) /\ mcpClient = "null") =>
                   d.phase = "idle" /\ d.outcome = "notConnected"
       /\ \A ok \in BOOLEAN :
            (CallerLiveSettled(i, ok) /\ call[i].via = "wrapper") =>
              LET d == call'[i] IN
              /\ d.liveOps = 1 /\ d.subCalls <= 1
              /\ d.subCalls = 1 <=> (~ok /\ mcpClient # "null")
              /\ ok => d.phase = "idle" /\ d.outcome = "live"
              /\ (~ok /\ mcpClient = "null") => d.phase = "idle" /\ d.outcome = "notConnected"
       /\ \A ok \in BOOLEAN :
            (CallerSubSettled(i, ok) /\ call[i].via = "wrapper") =>
              /\ call'[i].subCalls = 1 /\ call'[i].liveOps = call[i].liveOps
              /\ call'[i].outcome = IF ok THEN "sub" ELSE "subError"]_vars

\* The live operation of an invocation failed after the subprocess client had
\* gone: one live operation, no subprocess call, 'not connected'.
C19_Witness ==
  \E i \in Callers :
    /\ call[i].via = "wrapper" /\ call[i].op = "callTool" /\ call[i].phase = "idle"
    /\ call[i].liveThrew /\ call[i].liveOps = 1 /\ call[i].subCalls = 0
    /\ call[i].outcome = "notConnected"

\* Two invocations are at the same point of the same route: same backend
\* calls issued so far, same position or same outcome, same request to the
\* subprocess (absent arguments and {} taken as the same).
SameRoute(d, e) ==
  /\ d.phase = e.phase /\ d.outcome = e.outcome
  /\ d.liveOps = e.liveOps /\ d.liveThrew = e.liveThrew
  /\ d.subCalls = e.subCalls /\ d.subName = e.subName
  /\ OrEmpty(d.subArgs) = OrEmpty(e.subArgs)

C21_StoreTraceAppendOnly ==
  [][\A s \in Sessions :
       /\ IsPrefix(sessions[s].trace, sessions'[s].trace)
       /\ Len(sessions'[s].trace) <= Len(sessions[s].trace) + 1
       /\ \A k \in 1..Len(sessions'[s].trace) : sessions'[s].trace[k].iteration = k
       /\ \A k \in 1..Len(sess'[s].trace) : sess'[s].trace[k].iteration = k]_vars

\* A finished background session whose record holds two Steps of different
\* tools.
C21_Witness ==
  \E s \in Sessions :
    /\ sessions[s].status = "finished" /\ Len(sessions[s].trace) = 2
    /\ sessions[s].trace[1].tool # sessions[s].trace[2].tool
    /\ sessions[s].trace[2].iteration = 2
    /\ Len(sess[s].trace) = 2

\* The Step appended by this step of session s, which records a failed tool call.
FailedStepAppended(s) ==
  /\ Len(sess'[s].trace) = Len(sess[s].trace) + 1
  /\ ~sess'[s].trace[Len(sess'[s].trace)].result.success

\* C22: a failed tool call never ends a session by itself. The failure is the
\* result of the Step appended for it; right after it the session either makes
\* its next planning call, whose previous-result context is that failure, or
\* has used up its iteration budget. A session that has returned ended by a
\* done/respond action, an unknown action, a planning failure, the loop guard
\* or the iteration cap.
C22_FailedCallContinues ==
  [][\A s \in Sessions :
       /\ FailedStepAppended(s) =>
            LET last == sess'[s].trace[Len(sess'[s].trace)] IN
            /\ last.result.error # "" /\ last.result.result = ""
            /\ last.tool = sess'[s].parsed.tool
            /\ \/ /\ sess'[s].pc = "planning"
                  /\ sess'[s].planCalls = sess[s].planCalls + 1
                  /\ sess'[s].context =
                       [previous |-> TRUE, result |-> "", error |-> last.result.error]
               \/ /\ sess'[s].pc = "returned" /\ sess'[s].end = "maxIterations"
                  /\ Len(sess'[s].trace) = sess'[s].maxIterations
       /\ sess'[s].pc = "returned" =>
            sess'[s].end \in {"finish", "unknown", "planError", "loopGuard", "maxIterations"}]_vars

\* A session that finished by a done action after a failed tool call and a
\* later successful one.
C22_Witness ==
  \E s \in Sessions :
    /\ sess[s].pc = "returned" /\ sess[s].end = "finish" /\ Len(sess[s].trace) = 2
    /\ ~sess[s].trace[1].result.success /\ sess[s].trace[2].result.success

\* The planner's k-th action names its target itself.
ExplicitTarget(x, k) ==
  /\ x.planLog[k].action = "call_tool"
  /\ OrEmpty(x.planLog[k].args).ref # ""

\* C23: target resolution never overwrites an explicit target. When the
\* planner's k-th action carries a ref, no resolution lookup is issued for it
\* through the dispatcher (the session is never resolving on it), the args
\* given to executeTool are the planner's args unchanged, and so are the args
\* of the k-th Step.
C23_ExplicitTargetKept ==
  \A s \in Sessions :
    LET x == sess[s] IN
    \A k \in 1..Len(x.planLog) :
      ExplicitTarget(x, k) =>
        /\ k <= Len(x.lookups) => ~x.lookups[k]
        /\ k = Len(x.planLog) => x.pc # "resolving"
        /\ (k = Len(x.planLog) /\ x.pc = "executing") => x.parsed.args = x.planLog[k].args
        /\ k <= Len(x.trace) =>
             /\ x.trace[k].args = x.planLog[k].args
             /\ x.trace[k].tool = x.planLog[k].tool

\* A session of an agent with a tool catalog (so that lookups are possible)
\* that executed an action with an explicit target after one without.
C23_Witness ==
  \E s \in Sessions :
    LET x == sess[s] IN
    /\ Len(x.trace) = 2 /\ x.agent.availableTools = "catalog"
    /\ ExplicitTarget(x, 2) /\ x.trace[2].args.ref = "#a"
    /\ x.lookups = << TRUE, FALSE >>

\* The planner's k-th action has neither a target nor a hint in its arguments.
NoTargetNoHint(x, k) ==
  /\ x.planLog[k].action = "call_tool"
  /\ OrEmpty(x.planLog[k].args).ref = ""
  /\ OrEmpty(x.planLog[k].args).element = ""

\* C24: for a call_tool action without a target and without a hint in its
\* arguments (a navigate with only a url), no resolution lookup is run through
\* the dispatcher and the arguments are executed and recorded unchanged.
C24_NoLookupWithoutHint ==
  \A s \in Sessions :
    LET x == sess[s] IN
    \A k \in 1..Len(x.planLog) :
      NoTargetNoHint(x, k) =>
        /\ k <= Len(x.lookups) => ~x.lookups[k]
        /\ k = Len(x.planLog) => x.pc # "resolving"
        /\ k <= Len(x.trace) => x.trace[k].args = OrEmpty(x.planLog[k].args)

\* The resolution lookups session x has issued through the dispatcher.
LookupCalls(x) == Cardinality({ k \in 1..Len(x.lookups) : x.lookups[k] })

\* The callTool invocations session x has made on the dispatcher: one per
\* executeTool call and one per resolution lookup.
DispatcherCalls(x) == x.execCount + LookupCalls(x)

\* The session's dispatcher call that has not returned yet.
InFlight(x) == IF x.pc \in {"executing", "resolving"} THEN 1 ELSE 0

\* C25 (as amended): the trace length is the number of execution calls that
\* have returned. The dispatcher calls made for a session are these, the
\* resolution lookups (at most one per planned action, and none of them has a
\* Step) and at most one execution call still in flight; so every Step
\* accounts for exactly one dispatcher call, but not every dispatcher call has
\* a Step.
C25_StepsAreExecutionCalls ==
  \A s \in Sessions :
    LET x == sess[s] IN
    /\ Len(x.trace) = x.execCount - (IF x.pc = "executing" THEN 1 ELSE 0)
    /\ DispatcherCalls(x) = Len(x.trace) + LookupCalls(x) + (IF x.pc = "executing" THEN 1 ELSE 0)
    /\ Len(x.lookups) = x.execCount + (IF x.pc = "resolving" THEN 1 ELSE 0)
    /\ x.pc = "resolving" => x.lookups[Len(x.lookups)]
    /\ Len(x.trace) <= DispatcherCalls(x)

\* C25 as stated: the trace length is the number of dispatcher calls made for
\* the session, lookups included (a call still in flight is left out of the
\* count).
C25_TraceLengthIsDispatcherCalls ==
  \A s \in Sessions :
    LET x == sess[s] IN Len(x.trace) = DispatcherCalls(x) - InFlight(x)

\* A session with two Steps that took three dispatcher calls: its first action
\* described the element by a hint and was preceded by a resolution lookup, its
\* second named the target.
C25_Witness ==
  \E s \in Sessions :
    LET x == sess[s] IN
    /\ x.pc = "returned" /\ Len(x.trace) = 2
    /\ x.planLog[1].args.element = "Search" /\ x.planLog[2].args.ref = "#a"
    /\ x.lookups = << TRUE, FALSE >> /\ DispatcherCalls(x) = 3

\* C26: the progress callback is invoked exactly once per executed step, after
\* the Step was appended, with a trace that already contains the Step, and the
\* bridge's callback leaves the record running with that trace. Whenever a
\* record's trace is not empty, its lastAction and lastToolResult are the
\* action and the result of the last Step of that trace. A callback that
\* throws neither ends the session nor changes the trace: the step goes on as
\* it does without a callback.
C26_CallbackOncePerStep ==
  [][\A s \in Sessions :
       LET x == sess[s]
           y == sess'[s]
           r == sessions'[s]
           n == Len(y.trace)
       IN
       /\ y.cb # "none" => y.updates = n
       /\ y.cb = "none" => y.updates = 0
       /\ y.updates > x.updates =>
            /\ y.updates = x.updates + 1
            /\ n = Len(x.trace) + 1
            /\ y.emitTrace = y.trace
            /\ y.cb = "store" => r.trace = y.trace /\ r.status \in {"running", "finished"}
       /\ r.trace # << >> =>
            LET last == r.trace[Len(r.trace)] IN
            /\ r.lastAction.action = "call_tool"
            /\ r.lastAction.tool = last.tool
            /\ OrEmpty(r.lastAction.args) = last.args
            /\ r.lastToolResult = last.result
       /\ (y.cb = "throws" /\ n = Len(x.trace) + 1) =>
            /\ IsPrefix(x.trace, y.trace)
            /\ y.trace[n].tool = y.parsed.tool /\ y.trace[n].iteration = n
            /\ \/ y.pc = "planning" /\ y.context.previous
               \/ y.pc = "returned" /\ y.end = "maxIterations" /\ n = y.maxIterations
            /\ sessions'[s] = sessions[s]]_vars

\* A session whose callback threw at both of its Steps and that then finished
\* by a done action.
C26_Witness ==
  \E s \in Sessions :
    /\ sess[s].cb = "throws" /\ sess[s].updates = 2 /\ Len(sess[s].trace) = 2
    /\ sess[s].pc = "returned" /\ sess[s].end = "finish" /\ sess[s].ret.success

\* C27: a session started with maxIterations = N, for any N >= 0, executes at
\* most N steps and makes at most N planning calls; the bound is 10 only when
\* no value was given.
C27_BudgetIsSuppliedValue ==
  \A s \in Sessions :
    LET x == sess[s] IN
    x.pc # "idle" =>
      /\ x.options.given =>
           /\ Len(x.trace) <= x.options.n
           /\ x.planCalls <= x.options.n
           /\ x.maxIterations = x.options.n
      /\ ~x.options.given => x.maxIterations = DefaultMaxIterations

\* C28: if every planning call and every backend call eventually returns or
\* fails, every started session eventually returns, and the record of a
\* background session eventually has a terminal status. Every new pass of the
\* loop follows an executed step that increased the iteration counter by one,
\* a session makes at most maxIterations planning calls, and a returned
\* session and a terminal record stay as they are (so a started session is
\* again and again found returned, with a terminal record, only if it returns).
C28_SessionTerminates ==
  /\ []<>(\A s \in Sessions :
            /\ sess[s].pc \in {"idle", "returned"}
            /\ sessions[s].status \in {"absent", "finished", "error"})
  /\ [](\A s \in Sessions :
          /\ sess[s].planCalls <= sess[s].maxIterations
          /\ sess[s].iteration <= sess[s].maxIterations
          /\ sess[s].pc \in {"planning", "resolving", "executing"} =>
               sess[s].planCalls = sess[s].iteration + 1)
  /\ [][\A s \in Sessions :
          /\ (sess[s].pc # "idle" /\ sess'[s].planCalls > sess[s].planCalls) =>
               /\ sess'[s].planCalls = sess[s].planCalls + 1
               /\ sess'[s].iteration = sess[s].iteration + 1
          /\ sess[s].pc = "returned" => sess'[s] = sess[s]
          /\ sessions[s].status \in {"finished", "error"} => sessions'[s] = sessions[s]]_vars

\* A background session that used up a budget of three iterations: it has
\* returned and its record is finished.
C28_Witness ==
  \E s \in Sessions :
    /\ sess[s].bg /\ sess[s].pc = "returned" /\ sess[s].end = "maxIterations"
    /\ sess[s].maxIterations = 3 /\ sess[s].planCalls = 3 /\ Len(sess[s].trace) = 3
    /\ sessions[s].status = "finished"

\* The signature of the planner's j-th answer, a call_tool action, as the
\* planner gave it.
SigAt(log, j) == Signature(log[j])

\* The number of answers just before the j-th that have its signature.
RECURSIVE RepeatsBefore(_, _)
RepeatsBefore(log, j) ==
  IF j > 1 /\ log[j - 1].action = "call_tool" /\ SigAt(log, j - 1) = SigAt(log, j)
    THEN 1 + RepeatsBefore(log, j - 1)
    ELSE 0

\* No two successive answers of the planner have the same signature.
Alternating(log) == \A j \in 2..Len(log) : SigAt(log, j) # SigAt(log, j - 1)

\* C29: the loop guard ends a session at the planner's i-th answer if and only
\* if the answers i-2, i-1 and i are call_tool actions with the same
\* (tool, serialized args) signature as the planner gave them, whatever target
\* resolution added to the executed args. After every call_tool answer the
\* repeat counter is the length of the run of same-signature answers just
\* before it, so a different action puts it back to zero; a session whose
\* answers alternate is never ended by the guard: it ends when its budget is
\* used up (or when a planning call fails).
C29_GuardIffThreeSame ==
  \A s \in Sessions :
    LET x == sess[s]
        n == Len(x.planLog)
    IN
    /\ x.end = "loopGuard" <=> (n >= 3 /\ SameActionRun(x.planLog, n - 2))
    /\ \A i \in 1..n : SameActionRun(x.planLog, i) => i + 2 = n
    /\ (n >= 1 /\ x.planLog[n].action = "call_tool") =>
         /\ x.repeatCount = RepeatsBefore(x.planLog, n)
         /\ x.previousActionSignature = SigAt(x.planLog, n)
    /\ (AllCallTool(x.planLog) /\ Alternating(x.planLog)) =>
         /\ x.repeatCount = 0
         /\ x.end \in {"", "maxIterations", "planError"}
         /\ x.end = "maxIterations" <=> (x.pc # "idle" /\ Len(x.trace) = x.maxIterations)
         /\ x.end = "maxIterations" => n = x.maxIterations

\* A session whose planner answered A, B, A, B: four Steps, ended by its budget
\* of four; target resolution had added a ref to the executed B.
C29_Witness ==
  \E s \in Sessions :
    LET x == sess[s] IN
    /\ x.pc = "returned" /\ x.end = "maxIterations" /\ Len(x.planLog) = 4
    /\ Alternating(x.planLog) /\ SigAt(x.planLog, 1) = SigAt(x.planLog, 3)
    /\ SigAt(x.planLog, 2) = SigAt(x.planLog, 4)
    /\ Len(x.trace) = 4 /\ x.trace[2].args.ref = "#auto"

\* Position k of text t starts a well-formed object: an object, or "{" next to
\* "}" (the empty object).
WellFormedAt(t, k) ==
  \/ t[k].kind = "obj"
  \/ k < Len(t) /\ t[k].kind = "lbrace" /\ t[k + 1].kind = "rbrace"

HasWellFormed(t) == \E k \in 1..Len(t) : WellFormedAt(t, k)

FirstWellFormed(t) ==
  CHOOSE k \in 1..Len(t) : WellFormedAt(t, k) /\ \A j \in 1..(k - 1) : ~WellFormedAt(t, j)

\* The PlannedAction that object o is.
AsAction(o) ==
  [action |-> o.action, tool |-> o.tool, args |-> o.args, message |-> Msg(o.message)]

\* C30: when the planner's text holds a well-formed object, with prose or
\* further objects around it, the planned action is the first well-formed
\* object of the text; the text becomes a respond action with the raw text as
\* message only when it holds no well-formed object.
C30_FirstObjectIsAction ==
  [][\A t \in PlannerTexts :
       SessionPlanSettled(1, t) =>
         IF HasWellFormed(t)
           THEN sess'[1].parsed = AsAction(t[FirstWellFormed(t)].obj)
           ELSE sess'[1].parsed = Respond(t)]_vars

\* ---------------------------------------------------------------- claim C33
FailStages == {"attach", "context", "page"}

\* C33: when the handle's connect() fails at the attach, the context or the page
\* stage, the handle it failed on reports not connected and its getPage throws
\* the not-connected error, the bridge lets the handle go (playwrightCDP is
\* null) and goes on to connect the subprocess; and the request returns true
\* whenever that subprocess connection then succeeds.
C33_FailedHandleDiscarded ==
  [][\A c \in ConnReqs :
       /\ \A stage \in FailStages :
            ConnectCdpSettled(c, stage) =>
              /\ conn'[c].dropped.ref
              /\ ~isConnectedToBrowser(conn'[c].dropped)
              /\ ~GetPageOk(conn'[c].dropped)
              /\ playwrightCDP' = NullHandle
              /\ conn'[c].pc = "mcp"
       /\ (conn[c].dropped.ref /\ ConnectMcpSettled(c, TRUE)) =>
            conn'[c].ret = "true"]_vars

\* A request whose handle failed at the page stage, with browser and context
\* already attached, has connected the subprocess and returned true.
C33_Witness ==
  \E c \in ConnReqs :
    /\ conn[c].dropped.browser /\ conn[c].dropped.context
    /\ conn[c].ret = "true"
    /\ isConnected /\ mcpClient = "connected"
    /\ ~playwrightCDP.ref

\* ---------------------------------------------------------------- claim C35
\* C35: in every reachable state the bridge's connected flag implies that a
\* subprocess client is held: isConnected is never true while mcpClient is null.
C35_ConnectedHasClient == isConnected => mcpClient # "null"

\* ---------------------------------------------------------------- claim C36
\* C36: when connectToMCP fails because the subprocess connection fails, the
\* bridge is left fully disconnected: isConnected is false, no subprocess
\* client is held and no connected live-browser handle is held.
C36_FailedConnectLeavesNothing ==
  [][\A c \in ConnReqs :
       ConnectMcpSettled(c, FALSE) =>
         /\ ~isConnected'
         /\ mcpClient' = "null"
         /\ ~CdpAvailable']_vars

\* ---------------------------------------------------------------- claim C32
\* C32: in any interleaving of connect requests and disconnects, a request
\* creates a subprocess client only when the bridge holds none and a live-browser
\* handle only when the bridge holds none, so that at most one of each is
\* created between two disconnects and none is left unreferenced (creations
\* made while a disconnect is still closing the old client are not counted).
C32_OneClientOneHandle ==
  [][\A c \in ConnReqs :
       /\ (conn[c].pc # "mcp" /\ conn'[c].pc = "mcp" /\ disc = "idle") =>
            mcpClient = "null"
       /\ (conn[c].pc # "cdp" /\ conn'[c].pc = "cdp") =>
            ~playwrightCDP.ref]_vars

\* ---------------------------------------------------------------- claim C31
\* C31: in any interleaving of operations on a connected handler, the handler
\* makes a page for a key at most once, and every operation that is acting on a
\* key acts on the page registered for that key (no page is made and orphaned).
C31_OnePagePerKey ==
  /\ \A k \in PageKeys : cdpHandler.madeFor[k] <= 1
  /\ cdpHandler.isConnected =>
       \A o \in Ops : ops[o].pc \in {"acting", "title"} =>
                        ops[o].page = cdpHandler.pages[ops[o].key]

\* ---------------------------------------------------------------- claim C34
\* C34: once disconnect() has returned, the handler holds no browser, no context
\* and no page, and no operation calls into the browser on its behalf, whatever
\* was in flight when it was called.
C34_NothingAfterDisconnect ==
  cdpHandler.life = "disconnected" =>
    /\ ~cdpHandler.browser
    /\ ~cdpHandler.context
    /\ cdpHandler.pages = NoPages
    /\ \A o \in Ops : ~ops[o].late

\* ---------------------------------------------------------------- claim C38
\* C38: whenever no processMessage call is running, whether the calls so far
\* returned or threw, conversationHistory holds at most 10 entries.
C38_HistoryAtMostTen ==
  (\A m \in Msgs : msgs[m].pc = "idle") => Len(conversationHistory) <= HistoryLimit

\* ---------------------------------------------------------------- claim C37
\* The bridge as POST /mcp/disconnect leaves it, no connect having begun since.
Disconnected ==
  /\ disc = "idle"
  /\ mcpClient = "null"
  /\ ~playwrightCDP.ref
  /\ \A c \in ConnReqs : conn[c].pc = "idle"

NotConnectedStep(step) ==
  /\ ~step.result.success
  /\ step.result.error = "MCP client not connected"

\* C37: when POST /mcp/disconnect is processed while a session runs, the session
\* does not crash and does not hang: if every planning call and every backend
\* call eventually returns or fails, the session returns. While the bridge is
\* disconnected the session issues no call to the live browser (nor to the
\* subprocess): every tool call it starts fails at once with the not-connected
\* error and is recorded as a failed step. Whenever a handle is attached
\* again, the call the session issues next goes to that handle, and with only
\* a subprocess client connected it goes to that client.
C37_DisconnectDuringSession ==
  /\ []<>(\A s \in Sessions : sess[s].pc \in {"idle", "returned"})
  /\ [](\A s \in Sessions : sess[s].end \notin {"undefined", "callbackError"})
  /\ [][\A s \in Sessions :
          /\ (Disconnected /\ sess[s].pc # "idle" /\ sess'[s] # sess[s]) =>
               /\ call'[s].phase = "idle"
               /\ (Len(sess'[s].trace) > Len(sess[s].trace) /\ sess[s].pc # "executing") =>
                    NotConnectedStep(sess'[s].trace[Len(sess'[s].trace)])
          /\ (sess[s].pc = "planning" /\ sess'[s].pc \in {"resolving", "executing"}) =>
               call'[s].phase = IF CdpAvailable /\ GetPageOk(playwrightCDP) THEN "live" ELSE "sub"
          /\ sess[s].pc = "returned" => sess'[s] = sess[s]]_vars

\* A session whose first tool call failed with the not-connected error after a
\* disconnect and whose second call, after a connect, was answered by the live
\* browser; it has returned.
C37_Witness ==
  \E s \in Sessions :
    /\ sess[s].pc = "returned"
    /\ Len(sess[s].trace) = 2
    /\ NotConnectedStep(sess[s].trace[1])
    /\ sess[s].trace[2].result.success
    /\ sess[s].trace[2].result.result = "liveResult"

====
